---------------------------- MODULE Spec2Model ----------------------------
(***************************************************************************)
(* A model of the tender wizard: the extraction normalizer                 *)
(* (src/src/ReikanTenderAI.tsx, lines 190-410 and 858-947), the heuristic  *)
(* scorers (lines 549-595), the wizard's fetch state (lines 598-957,       *)
(* 1611-1631) and the upload zone with its batch-status polling            *)
(* (src/src/components/FileUploadZone.tsx).                                *)
(*                                                                         *)
(* JavaScript strings are sequences of one-character strings, so that      *)
(* trimming, lower-casing and whitespace collapsing are computed, not      *)
(* assumed.  Loosely typed JSON values are tagged records; an operator     *)
(* that can raise a TypeError returns the value TypeError instead.         *)
(***************************************************************************)
EXTENDS Integers, Sequences, FiniteSets, TLC

VARIABLES
  \* mergeSourceDocuments call
  mergeA, mergeB, merged,
  \* picker calls (pickTopRisks, pickTopRequirements, pickTopCriteria)
  items, metaSource, risksOut, reqsOut, critOut,
  \* computeWinProbability calls: the arguments and result of the latest
  \* call, and those of the call before it
  winTender, winArgs, winProb, winPrev,
  \* mapSummaryToTender call: the payload and the outcome
  mapPayload, mapOut,
  \* buildTimelineSteps calls: the arguments and outcome of the latest call,
  \* and the timeline and outcome of the call before it
  tlSteps, tlTimeline, tlMeta, tlOut, tlPrev,
  \* isPlaceholder call: the argument and the outcome
  phText, phOut,
  \* ReikanTenderAI component state
  step, mode, sortKey, results, selected, isProcessing, latestBatch,
  tendersError, loadingTenders, loadingTenderDetails,
  \* requests of the component that are in flight
  listFetches, detailFetches, started,
  \* FileUploadZone: the uploadFiles call, the component state, the batches
  \* with their polling timers, the poll callbacks in flight
  up, zone, batches, calls,
  \* history: the zone was unmounted after uploadFiles had started; a poll
  \* was issued, or a callback fired, after that or after a terminal status
  torn, late,
  \* the bounds of the run: the steps visited, the list and detail requests
  \* issued, the files of a selection, the callbacks one timer starts
  limits

mergeVars == <<mergeA, mergeB, merged>>
pickVars  == <<items, metaSource, risksOut, reqsOut, critOut>>
winVars   == <<winTender, winArgs, winProb, winPrev>>
mapVars   == <<mapPayload, mapOut>>
timelineVars == <<tlSteps, tlTimeline, tlMeta, tlOut, tlPrev>>
placeholderVars == <<phText, phOut>>
compVars  == <<step, mode, sortKey, results, selected, isProcessing, latestBatch,
               tendersError, loadingTenders, loadingTenderDetails,
               listFetches, detailFetches, started>>
zoneVars  == <<up, zone, batches, calls, torn, late>>
appVars   == <<compVars, zoneVars, limits>>
vars == <<mergeVars, pickVars, winVars, mapVars, timelineVars, placeholderVars,
         appVars>>

\* The variables outside each component.
outsideMerge == <<pickVars, winVars, mapVars, timelineVars, placeholderVars, appVars>>
outsidePick  == <<mergeVars, winVars, mapVars, timelineVars, placeholderVars, appVars>>
outsideWin   == <<mergeVars, pickVars, mapVars, timelineVars, placeholderVars, appVars>>
outsideMap   == <<mergeVars, pickVars, winVars, timelineVars, placeholderVars, appVars>>
outsideTimeline == <<mergeVars, pickVars, winVars, mapVars, placeholderVars, appVars>>
outsidePlaceholder == <<mergeVars, pickVars, winVars, mapVars, timelineVars, appVars>>
\* The bounds never change.
outsideApp   == <<mergeVars, pickVars, winVars, mapVars, timelineVars, placeholderVars,
                  limits>>

\* A variable of a component the running specification does not exercise.
Unused == "unused"
\* The outcome of a call: not made yet, ended by a thrown TypeError, or returned.
Pending     == [state |-> "pending"]
Thrown      == [state |-> "thrown"]
Returned(v) == [state |-> "returned", val |-> v]

----------------------------------------------------------------------------
(* JavaScript values *)

Undefined == [type |-> "undefined"]
Null      == [type |-> "null"]
NaN       == [type |-> "NaN"]
TypeError == [type |-> "TypeError"]
Str(s)    == [type |-> "string", val |-> s]
Num(n)    == [type |-> "number", num |-> n]
Obj(f)    == [type |-> "object", fields |-> f]
Arr(s)    == [type |-> "array", elems |-> s]
EmptyObj  == Obj([x \in {} |-> Undefined])

\* ToBoolean: undefined, null, "", 0 and NaN are falsy.
Truthy(v) ==
  CASE v.type = "undefined" -> FALSE
    [] v.type = "null"      -> FALSE
    [] v.type = "NaN"       -> FALSE
    [] v.type = "string"    -> Len(v.val) > 0
    [] v.type = "number"    -> v.num # 0
    [] OTHER                -> TRUE

\* x || y
Or(x, y) == IF Truthy(x) THEN x ELSE y

\* x ?? y
Nullish(x, y) == IF x.type \in {"undefined", "null"} THEN y ELSE x

\* v?.name, and v.name for a v that is neither null nor undefined: a property
\* of a primitive or a missing property of an object is undefined.
Get(v, name) ==
  IF v.type = "object" /\ name \in DOMAIN v.fields THEN v.fields[name]
  ELSE Undefined

----------------------------------------------------------------------------
(* Strings *)

Whitespace == {" ", "\t", "\n"}

UpperCase == <<"A","B","C","D","E","F","G","H","I","J","K","L","M",
               "N","O","P","Q","R","S","T","U","V","W","X","Y","Z">>
LowerCase == <<"a","b","c","d","e","f","g","h","i","j","k","l","m",
               "n","o","p","q","r","s","t","u","v","w","x","y","z">>

ToLowerChar(c) ==
  IF \E i \in 1..26 : UpperCase[i] = c
  THEN LowerCase[CHOOSE i \in 1..26 : UpperCase[i] = c]
  ELSE c

\* The sequence f[1], ..., f[n] of a function on 1..n, computed once.
AsSeq(f) == f \o <<>>

\* F(v), with v computed once however often F reads it.
Once(F(_), v) == CHOOSE r \in {F(x) : x \in {v}} : TRUE

\* String.prototype.toLowerCase
ToLowerCase(s) ==
  Once(LAMBDA str : AsSeq([i \in 1..Len(str) |-> ToLowerChar(str[i])]), s)

\* String.prototype.trim
Trim(s) ==
  Once(LAMBDA str :
         Once(LAMBDA keep :
                IF keep = {} THEN <<>>
                ELSE LET lo == CHOOSE i \in keep : \A j \in keep : i <= j
                         hi == CHOOSE i \in keep : \A j \in keep : j <= i
                     IN SubSeq(str, lo, hi),
              {i \in 1..Len(str) : str[i] \notin Whitespace}),
       s)

\* replace(/\s+/g, " "): every maximal run of whitespace becomes one space.
RECURSIVE CollapseFrom(_, _)
CollapseFrom(s, i) ==
  IF i > Len(s) THEN <<>>
  ELSE IF s[i] \notin Whitespace THEN <<s[i]>> \o CollapseFrom(s, i + 1)
  ELSE IF i > 1 /\ s[i - 1] \in Whitespace THEN CollapseFrom(s, i + 1)
  ELSE <<" ">> \o CollapseFrom(s, i + 1)

CollapseWhitespace(s) == Once(LAMBDA str : CollapseFrom(str, 1), s)

\* Array.prototype.join over strings
RECURSIVE Join(_, _)
Join(parts, sep) ==
  IF Len(parts) = 0 THEN <<>>
  ELSE IF Len(parts) = 1 THEN parts[1]
  ELSE parts[1] \o sep \o Join(Tail(parts), sep)

\* new Set(seq), in insertion order
RECURSIVE Distinct(_)
Distinct(seq) ==
  IF Len(seq) = 0 THEN <<>>
  ELSE LET front == Distinct(SubSeq(seq, 1, Len(seq) - 1))
           last  == seq[Len(seq)]
       IN IF \E i \in 1..Len(front) : front[i] = last THEN front
          ELSE Append(front, last)

\* s.includes(sub)
Includes(s, sub) ==
  \E str \in {s} : \E part \in {sub} :
    \E i \in 1..(Len(str) - Len(part) + 1) :
      SubSeq(str, i, i + Len(part) - 1) = part

Max(x, y) == IF x >= y THEN x ELSE y
Min(x, y) == IF x <= y THEN x ELSE y

Digits == <<"0","1","2","3","4","5","6","7","8","9">>

\* Number.prototype.toString for a natural number
RECURSIVE NatToString(_)
NatToString(n) ==
  IF n < 10 THEN <<Digits[n + 1]>>
  ELSE NatToString(n \div 10) \o <<Digits[(n % 10) + 1]>>

ObjectString == <<"[","o","b","j","e","c","t"," ","O","b","j","e","c","t","]">>

\* v.toString() for a value that has the method (a string, a number, an object)
JsToString(v) ==
  CASE v.type = "string" -> v.val
    [] v.type = "number" -> NatToString(v.num)
    [] v.type = "NaN"    -> <<"N","a","N">>
    [] OTHER             -> ObjectString

----------------------------------------------------------------------------
(* Text normalization and placeholder detection *)

PLACEHOLDERS == {
  <<"u","n","b","e","k","a","n","n","t">>,
  <<"u","n","k","n","o","w","n">>,
  <<"t","b","d">>,
  <<"n","/","a">>,
  <<"n","i","c","h","t"," ","v","o","r","h","a","n","d","e","n">>,
  <<"k","e","i","n","e"," ","a","n","g","a","b","e">>,
  <<"u","n","s","p","e","c","i","f","i","e","d">>,
  <<".",".",".">>,
  <<"n","u","l","l">>,
  <<"n","o","n","e">>,
  <<"k",".","a",".">> }

\* normalizeText without toLowerCase.
normalizeTextKeepCase(text) == CollapseWhitespace(Trim(text))

normalizeText(text) == CollapseWhitespace(Trim(ToLowerCase(text)))

\* isPlaceholder(text) raises a TypeError for a truthy value that is not a
\* string: such a value has no toLowerCase.
isPlaceholderThrows(text) == Truthy(text) /\ text.type # "string"

\* isPlaceholder(text) for a value on which it does not throw.
isPlaceholder(text) ==
  IF ~Truthy(text) THEN TRUE
  ELSE \E normalized \in {normalizeText(text.val)} :
         Len(normalized) < 3 \/ normalized \in PLACEHOLDERS

\* mergeSourceDocuments without the Set: a plausible slip that keeps both
\* copies of a repeated label.
mergeSourceDocumentsNoSet(x, y) ==
  LET kept == SelectSeq(<<x, y>>, Truthy)
  IN IF \E i \in 1..Len(kept) : kept[i].type # "string" THEN TypeError
     ELSE LET trimmed  == AsSeq([i \in 1..Len(kept) |-> Trim(kept[i].val)])
              nonEmpty == SelectSeq(trimmed, LAMBDA s : Len(s) > 0)
          IN Str(Join(nonEmpty, <<";", " ">>))

mergeSourceDocuments(x, y) ==
  LET kept == SelectSeq(<<x, y>>, Truthy)
  IN IF \E i \in 1..Len(kept) : kept[i].type # "string" THEN TypeError
     ELSE LET trimmed  == AsSeq([i \in 1..Len(kept) |-> Trim(kept[i].val)])
              nonEmpty == SelectSeq(trimmed, LAMBDA s : Len(s) > 0)
          IN Str(Join(Distinct(nonEmpty), <<";", " ">>))

----------------------------------------------------------------------------
(* Array.prototype.sort: a stable insertion sort.  gt is the set of pairs    *)
(* <<i, j>> of positions for which the comparator's result on (seq[i],       *)
(* seq[j]) is positive; the result is the sorted sequence of positions.      *)

InsertSorted(p, x, gt) ==
  LET stay == {0} \cup {j \in 1..Len(p) : <<p[j], x>> \notin gt}
      \* the last position whose element is not greater than x
      k == CHOOSE j \in stay : \A j2 \in stay : j2 <= j
  IN SubSeq(p, 1, k) \o <<x>> \o SubSeq(p, k + 1, Len(p))

RECURSIVE SortPositions(_, _)
SortPositions(n, gt) ==
  IF n = 0 THEN <<>> ELSE InsertSorted(SortPositions(n - 1, gt), n, gt)

\* Array.prototype.slice(0, n)
Slice(seq, n) == SubSeq(seq, 1, IF Len(seq) < n THEN Len(seq) ELSE n)

\* The position of the Map entry with this key, 0 if there is none.
KeyIndex(entries, key) ==
  IF \E i \in 1..Len(entries) : entries[i].key = key
  THEN CHOOSE i \in 1..Len(entries) : entries[i].key = key
  ELSE 0

----------------------------------------------------------------------------
(* pickTopRisks *)

\* The rank table with the ranks of high and medium exchanged.
severityRankSwapped(severity) ==
  CASE severity = <<"h","i","g","h">>         -> 2
    [] severity = <<"m","e","d","i","u","m">> -> 3
    [] OTHER                                  -> 1

\* severityRank[severity] || 1, for a severity whose rank is a number
severityRank(severity) ==
  CASE severity = <<"h","i","g","h">>         -> 3
    [] severity = <<"m","e","d","i","u","m">> -> 2
    [] OTHER                                  -> 1

\* severityRank is an object literal: for the lower-case names of members of
\* Object.prototype the lookup finds the inherited member, which is truthy
\* and not a number.
severityRankIsNumber(severity) ==
  severity \notin { <<"c","o","n","s","t","r","u","c","t","o","r">>,
                    <<"_","_","p","r","o","t","o","_","_">> }

\* The forEach body with a duplicate skipped instead of merged: the label of
\* the later record is dropped.
RiskStepNoMerge(deduped, risk, index, meta) ==
  LET rawText == Or(Or(Get(risk, "risk_de"), Get(risk, "text")), Str(<<>>))
  IN IF rawText.type # "string" THEN Thrown
     ELSE
       LET text     == Trim(rawText.val)
           severity == ToLowerCase(JsToString(Or(Get(risk, "severity"), Str(<<>>))))
           key      == normalizeText(text)
           source_document ==
             Or(Or(Get(risk, "source_document"), meta), Str(<<>>))
           source_chunk_id == Nullish(Get(risk, "source_chunk_id"), Null)
           at       == KeyIndex(deduped, key)
       IN IF Len(text) = 0 \/ isPlaceholder(Str(text)) \/ Len(severity) = 0
          THEN Returned(deduped)
          ELSE IF Len(key) = 0 THEN Returned(deduped)
          ELSE IF at # 0
          THEN Returned(deduped)
          ELSE Returned(Append(deduped,
                      [key |-> key, text |-> text,
                       source_document |-> source_document,
                       source_chunk_id |-> source_chunk_id,
                       severity |-> severity, index |-> index]))

\* The forEach body with a duplicate replacing the stored record: the text,
\* severity, chunk and index of the later record, the labels merged.
RiskStepLatestWins(deduped, risk, index, meta) ==
  LET rawText == Or(Or(Get(risk, "risk_de"), Get(risk, "text")), Str(<<>>))
  IN IF rawText.type # "string" THEN Thrown
     ELSE
       LET text     == Trim(rawText.val)
           severity == ToLowerCase(JsToString(Or(Get(risk, "severity"), Str(<<>>))))
           key      == normalizeText(text)
           source_document ==
             Or(Or(Get(risk, "source_document"), meta), Str(<<>>))
           source_chunk_id == Nullish(Get(risk, "source_chunk_id"), Null)
           at       == KeyIndex(deduped, key)
       IN IF Len(text) = 0 \/ isPlaceholder(Str(text)) \/ Len(severity) = 0
          THEN Returned(deduped)
          ELSE IF Len(key) = 0 THEN Returned(deduped)
          ELSE IF at # 0
          THEN LET both == mergeSourceDocuments(deduped[at].source_document,
                                                source_document)
               IN IF both = TypeError THEN Thrown
                  ELSE Returned([deduped EXCEPT ![at] =
                         [key |-> key, text |-> text,
                          source_document |-> both,
                          source_chunk_id |-> source_chunk_id,
                          severity |-> severity, index |-> index]])
          ELSE Returned(Append(deduped,
                      [key |-> key, text |-> text,
                       source_document |-> source_document,
                       source_chunk_id |-> source_chunk_id,
                       severity |-> severity, index |-> index]))

\* The body of risks.forEach for one record: the Map after it, or Thrown.
RiskStep(deduped, risk, index, meta) ==
  LET rawText == Or(Or(Get(risk, "risk_de"), Get(risk, "text")), Str(<<>>))
  IN IF rawText.type # "string" THEN Thrown
     ELSE
       LET text     == Trim(rawText.val)
           severity == ToLowerCase(JsToString(Or(Get(risk, "severity"), Str(<<>>))))
           key      == normalizeText(text)
           source_document ==
             Or(Or(Get(risk, "source_document"), meta), Str(<<>>))
           source_chunk_id == Nullish(Get(risk, "source_chunk_id"), Null)
           at       == KeyIndex(deduped, key)
       IN IF Len(text) = 0 \/ isPlaceholder(Str(text)) \/ Len(severity) = 0
          THEN Returned(deduped)
          ELSE IF Len(key) = 0 THEN Returned(deduped)
          ELSE IF at # 0
          THEN LET both == mergeSourceDocuments(deduped[at].source_document,
                                                source_document)
               IN IF both = TypeError THEN Thrown
                  ELSE Returned([deduped EXCEPT ![at].source_document = both])
          ELSE Returned(Append(deduped,
                      [key |-> key, text |-> text,
                       source_document |-> source_document,
                       source_chunk_id |-> source_chunk_id,
                       severity |-> severity, index |-> index]))

RECURSIVE RisksForEach(_, _, _)
RisksForEach(risks, n, meta) ==
  IF n = 0 THEN Returned(<<>>)
  ELSE LET before == RisksForEach(risks, n - 1, meta)
       IN IF before = Thrown THEN Thrown
          ELSE RiskStep(before.val, risks[n], n - 1, meta)

\* The comparator without the severity tier: input order only.
RiskCompareGtNoRank(x, y) == x.index - y.index > 0

\* bRank - aRank || a.index - b.index, positive; the difference is NaN, and
\* the index decides, when a rank is not a number.
RiskCompareGt(x, y) ==
  IF severityRankIsNumber(x.severity) /\ severityRankIsNumber(y.severity)
  THEN LET byRank == severityRank(y.severity) - severityRank(x.severity)
       IN IF byRank # 0 THEN byRank > 0 ELSE x.index - y.index > 0
  ELSE x.index - y.index > 0

TopN == 5

pickTopRisks(risks, meta) ==
  Once(LAMBDA each :
         IF each = Thrown THEN Thrown
         ELSE
           LET deduped == each.val
               gt == {pr \in (1..Len(deduped)) \X (1..Len(deduped)) :
                        RiskCompareGt(deduped[pr[1]], deduped[pr[2]])}
               order == Slice(SortPositions(Len(deduped), gt), TopN)
           IN Returned(AsSeq([i \in 1..Len(order) |->
                 [text            |-> deduped[order[i]].text,
                  source_document |-> deduped[order[i]].source_document,
                  source_chunk_id |-> deduped[order[i]].source_chunk_id]])),
       RisksForEach(risks, Len(risks), meta))

----------------------------------------------------------------------------
(* pickTopRequirements *)

\* The .map callback: the candidate record, or Thrown when .trim() is
\* called on a truthy value that is not a string.
RequirementCandidate(req, index) ==
  LET rawText   == Or(Or(Get(req, "requirement_de"), Get(req, "text")), Str(<<>>))
      rawDetail == Or(Or(Or(Get(req, "explanation_de"), Get(req, "explanation")),
                         Get(req, "description_de")), Str(<<>>))
  IN IF rawText.type # "string" \/ rawDetail.type # "string" THEN Thrown
     ELSE Returned([text            |-> Trim(rawText.val),
                    detail          |-> Trim(rawDetail.val),
                    source_document |-> Or(Get(req, "source_document"), Str(<<>>)),
                    source_chunk_id |-> Nullish(Get(req, "source_chunk_id"), Null),
                    index           |-> index])

\* The comparator without the preference for the primary source.
RequirementCompareGtByIndex(x, y, primarySource) == x.index - y.index > 0

\* aPrimary - bPrimary || a.index - b.index, positive
RequirementCompareGt(x, y, primarySource) ==
  LET xPrimary == IF x.source_document = Str(primarySource) THEN 0 ELSE 1
      yPrimary == IF y.source_document = Str(primarySource) THEN 0 ELSE 1
  IN IF xPrimary - yPrimary # 0 THEN xPrimary - yPrimary > 0
     ELSE x.index - y.index > 0

\* The for loop over the ordered candidates, up to position n: the result
\* list and the seen keys; the loop breaks once the list has TopN entries.
RECURSIVE RequirementsLoop(_, _, _)
RequirementsLoop(ordered, n, primarySource) ==
  IF n = 0 THEN [result |-> <<>>, seen |-> {}]
  ELSE LET before == RequirementsLoop(ordered, n - 1, primarySource)
           req    == ordered[n]
           key    == normalizeText(req.text)
       IN IF Len(before.result) >= TopN \/ key \in before.seen THEN before
          ELSE [result |-> Append(before.result,
                  [text            |-> req.text,
                   detail          |-> IF Len(req.detail) > 0 THEN Str(req.detail)
                                       ELSE Undefined,
                   source_document |-> Or(Or(req.source_document, Str(primarySource)),
                                          Str(<<>>)),
                   source_chunk_id |-> req.source_chunk_id]),
                seen |-> before.seen \cup {key}]

pickTopRequirements(requirements, meta) ==
  LET rawPrimary == Or(meta, Str(<<>>))
  IN IF rawPrimary.type # "string" THEN Thrown
     ELSE
       Once(LAMBDA mapped :
              IF \E i \in 1..Len(mapped) : mapped[i] = Thrown THEN Thrown
              ELSE
                Once(LAMBDA filtered :
                       LET primarySource == Trim(rawPrimary.val)
                           gt == {pr \in (1..Len(filtered)) \X (1..Len(filtered)) :
                                    RequirementCompareGt(filtered[pr[1]], filtered[pr[2]],
                                                         primarySource)}
                           order == SortPositions(Len(filtered), gt)
                       IN Once(LAMBDA ordered :
                                 Returned(RequirementsLoop(ordered, Len(ordered),
                                                           primarySource).result),
                               AsSeq([i \in 1..Len(order) |-> filtered[order[i]]])),
                     SelectSeq(AsSeq([i \in 1..Len(mapped) |-> mapped[i].val]),
                               LAMBDA c : Len(c.text) > 0 /\ ~isPlaceholder(Str(c.text)))),
            AsSeq([i \in 1..Len(requirements) |->
                     RequirementCandidate(requirements[i], i - 1)]))

----------------------------------------------------------------------------
(* pickTopCriteria *)

IsDigits(s) == Len(s) > 0 /\ \A i \in 1..Len(s) : \E d \in 1..10 : Digits[d] = s[i]

RECURSIVE DigitsToNat(_)
DigitsToNat(s) ==
  IF Len(s) = 0 THEN 0
  ELSE 10 * DigitsToNat(SubSeq(s, 1, Len(s) - 1))
       + ((CHOOSE d \in 1..10 : Digits[d] = s[Len(s)]) - 1)

\* Number(v) for null, a natural number, NaN, a plain object, and a string
\* that is blank, all decimal digits, or holds no numeral at all.
ToNumber(v) ==
  CASE v.type = "number" -> v
    [] v.type = "null"   -> Num(0)
    [] v.type = "string" ->
         IF Len(Trim(v.val)) = 0 THEN Num(0)
         ELSE IF IsDigits(Trim(v.val)) THEN Num(DigitsToNat(Trim(v.val)))
         ELSE NaN
    [] OTHER             -> NaN

\* x > y on numbers: false when either is NaN
NumGt(x, y) == x.type = "number" /\ y.type = "number" /\ x.num > y.num

\* Number(crit?.weight_percent ?? 0)
CriterionWeight(crit) == ToNumber(Nullish(Get(crit, "weight_percent"), Num(0)))

\* The forEach body with weight >= existing.weight: a later record of equal
\* weight replaces the stored one.
CriterionStepEqualWins(seen, crit, meta) ==
  LET rawText == Or(Or(Get(crit, "criterion_de"), Get(crit, "text")), Str(<<>>))
  IN IF rawText.type # "string" THEN Thrown
     ELSE
       LET text   == Trim(rawText.val)
           weight == CriterionWeight(crit)
           key    == normalizeText(text)
           source_document ==
             Or(Or(Get(crit, "source_document"), meta), Str(<<>>))
           source_chunk_id == Nullish(Get(crit, "source_chunk_id"), Null)
           at     == KeyIndex(seen, key)
           fresh  == [key |-> key, text |-> text, weight |-> weight,
                      source_document |-> source_document,
                      source_chunk_id |-> source_chunk_id]
       IN IF Len(text) = 0 \/ isPlaceholder(Str(text)) THEN Returned(seen)
          ELSE IF weight = Num(0) THEN Returned(seen)
          ELSE IF at = 0 THEN Returned(Append(seen, fresh))
          ELSE IF NumGt(weight, seen[at].weight) \/ weight = seen[at].weight
          THEN Returned([seen EXCEPT ![at] = fresh])
          ELSE LET both == mergeSourceDocuments(seen[at].source_document,
                                                source_document)
               IN IF both = TypeError THEN Thrown
                  ELSE Returned([seen EXCEPT ![at].source_document = both])

\* The body of criteria.forEach for one record: the Map after it, or Thrown.
CriterionStep(seen, crit, meta) ==
  LET rawText == Or(Or(Get(crit, "criterion_de"), Get(crit, "text")), Str(<<>>))
  IN IF rawText.type # "string" THEN Thrown
     ELSE
       LET text   == Trim(rawText.val)
           weight == CriterionWeight(crit)
           key    == normalizeText(text)
           source_document ==
             Or(Or(Get(crit, "source_document"), meta), Str(<<>>))
           source_chunk_id == Nullish(Get(crit, "source_chunk_id"), Null)
           at     == KeyIndex(seen, key)
           fresh  == [key |-> key, text |-> text, weight |-> weight,
                      source_document |-> source_document,
                      source_chunk_id |-> source_chunk_id]
       IN IF Len(text) = 0 \/ isPlaceholder(Str(text)) THEN Returned(seen)
          ELSE IF weight = Num(0) THEN Returned(seen)
          ELSE IF at = 0 THEN Returned(Append(seen, fresh))
          ELSE IF NumGt(weight, seen[at].weight)
          THEN Returned([seen EXCEPT ![at] = fresh])
          ELSE LET both == mergeSourceDocuments(seen[at].source_document,
                                                source_document)
               IN IF both = TypeError THEN Thrown
                  ELSE Returned([seen EXCEPT ![at].source_document = both])

RECURSIVE CriteriaForEach(_, _, _)
CriteriaForEach(criteria, n, meta) ==
  IF n = 0 THEN Returned(<<>>)
  ELSE LET before == CriteriaForEach(criteria, n - 1, meta)
       IN IF before = Thrown THEN Thrown
          ELSE CriterionStep(before.val, criteria[n], meta)

\* `${item.text} (${item.weight}%)` when the weight is truthy, else item.text
CriterionText(item) ==
  IF Truthy(item.weight)
  THEN item.text \o <<" ", "(">> \o JsToString(item.weight) \o <<"%", ")">>
  ELSE item.text

pickTopCriteria(criteria, meta) ==
  Once(LAMBDA each :
         IF each = Thrown THEN Thrown
         ELSE
           LET seen == each.val
               \* b.weight - a.weight > 0; a NaN difference counts as 0
               gt == {pr \in (1..Len(seen)) \X (1..Len(seen)) :
                        NumGt(seen[pr[2]].weight, seen[pr[1]].weight)}
               order == Slice(SortPositions(Len(seen), gt), TopN)
           IN Returned(AsSeq([i \in 1..Len(order) |->
                 [text            |-> CriterionText(seen[order[i]]),
                  source_document |-> seen[order[i]].source_document,
                  source_chunk_id |-> seen[order[i]].source_chunk_id]])),
       CriteriaForEach(criteria, Len(criteria), meta))

----------------------------------------------------------------------------
(* pickTopStrings *)

\* The body of items.forEach for one item: the Map after it, or Thrown when
\* .trim() is called on a truthy text that is not a string.
StringStep(deduped, item) ==
  LET raw == IF item.type = "string" THEN item
             ELSE Or(Get(item, "text"), Str(<<>>))
  IN IF raw.type # "string" THEN Thrown
     ELSE LET text == Trim(raw.val)
              key  == normalizeText(text)
          IN IF Len(text) = 0 \/ isPlaceholder(Str(text)) THEN Returned(deduped)
             ELSE IF KeyIndex(deduped, key) # 0 THEN Returned(deduped)
             ELSE Returned(Append(deduped, [key |-> key, text |-> text]))

RECURSIVE StringsForEach(_, _)
StringsForEach(strings, n) ==
  IF n = 0 THEN Returned(<<>>)
  ELSE LET before == StringsForEach(strings, n - 1)
       IN IF before = Thrown THEN Thrown
          ELSE StringStep(before.val, strings[n])

pickTopStrings(strings, limit) ==
  LET each == StringsForEach(strings, Len(strings))
  IN IF each = Thrown THEN Thrown
     ELSE LET kept == Slice(each.val, limit)
          IN Returned(AsSeq([i \in 1..Len(kept) |-> kept[i].text]))

----------------------------------------------------------------------------
(* buildTimelineSteps *)

\* The buckets in declaration order, each with its keywords.
buckets == <<
    [key |-> "preparation", keywords |-> <<
       <<"v","o","r","b","e","r","e","i","t","u","n","g">>,
       <<"p","l","a","n","u","n","g">>,
       <<"b","e","s","c","h","a","f","f","u","n","g">>,
       <<"b","e","r","e","i","t","s","t","e","l","l","u","n","g">>>>],
    [key |-> "review", keywords |-> <<
       <<"f","r","e","i","g","a","b","e">>,
       <<"r","e","v","i","e","w">>,
       <<"p","r","ü","f","u","n","g">>,
       <<"g","e","n","e","h","m","i","g","u","n","g">>>>],
    [key |-> "submission", keywords |-> <<
       <<"a","b","g","a","b","e">>,
       <<"e","i","n","r","e","i","c","h">>,
       <<"s","u","b","m","i","s","s","i","o","n">>,
       <<"a","n","g","e","b","o","t">>>>],
    [key |-> "clarifications", keywords |-> <<
       <<"n","a","c","h","f","o","r","d","e","r","u","n","g">>,
       <<"k","l","ä","r","u","n","g">>,
       <<"r","ü","c","k","f","r","a","g","e">>,
       <<"c","l","a","r","i","f","i","c","a","t","i","o","n">>>>],
    [key |-> "award", keywords |-> <<
       <<"z","u","s","c","h","l","a","g">>,
       <<"v","e","r","g","a","b","e","e","n","t","s","c","h","e","i","d","u","n","g">>,
       <<"e","n","t","s","c","h","e","i","d","u","n","g">>,
       <<"a","w","a","r","d">>>>],
    [key |-> "execution", keywords |-> <<
       <<"l","e","i","s","t","u","n","g","s","b","e","g","i","n","n">>,
       <<"a","u","s","f","ü","h","r","u","n","g">>,
       <<"b","e","g","i","n","n">>,
       <<"s","t","a","r","t">>>>] >>

Angebotsabgabe == <<"A","n","g","e","b","o","t","s","a","b","g","a","b","e">>
Abgabefrist    == <<"A","b","g","a","b","e","f","r","i","s","t",":"," ">>

\* (v || "").trim() throws for a truthy v that is not a string.
TrimThrows(v) == Truthy(v) /\ v.type # "string"
TrimOrEmpty(v) == IF Truthy(v) THEN Trim(v.val) ELSE <<>>

\* The .map callback of validSteps, or Thrown.
TimelineCandidate(entry, index, meta) ==
  IF \/ TrimThrows(Get(entry, "title_de"))
     \/ TrimThrows(Get(entry, "description_de"))
     \/ TrimThrows(Get(entry, "days_de"))
  THEN Thrown
  ELSE Returned([title_de        |-> TrimOrEmpty(Get(entry, "title_de")),
                 description_de  |-> TrimOrEmpty(Get(entry, "description_de")),
                 days_de         |-> TrimOrEmpty(Get(entry, "days_de")),
                 source_document |-> Or(Or(Get(entry, "source_document"), meta), Str(<<>>)),
                 source_chunk_id |-> Nullish(Get(entry, "source_chunk_id"), Null),
                 index           |-> index])

\* buckets.find(...) taking the last matching bucket instead of the first.
FindBucketLast(haystack) ==
  LET hits == {b \in 1..Len(buckets) :
                 \E k \in 1..Len(buckets[b].keywords) :
                   Includes(haystack, buckets[b].keywords[k])}
  IN IF hits = {} THEN 0 ELSE CHOOSE b \in hits : \A c \in hits : b >= c

\* buckets.find(...): the position of the first bucket one of whose keywords
\* the haystack includes, 0 if there is none.
FindBucket(haystack) ==
  LET hits == {b \in 1..Len(buckets) :
                 \E k \in 1..Len(buckets[b].keywords) :
                   Includes(haystack, buckets[b].keywords[k])}
  IN IF hits = {} THEN 0 ELSE CHOOSE b \in hits : \A c \in hits : b <= c

\* validSteps.forEach up to position n: bucketed, a function from bucket
\* positions to the step that filled them.
RECURSIVE BucketSteps(_, _)
BucketSteps(validSteps, n) ==
  IF n = 0 THEN [b \in {} |-> Null]
  ELSE LET bucketed == BucketSteps(validSteps, n - 1)
           entry    == validSteps[n]
           haystack == normalizeText(entry.title_de \o <<" ">> \o entry.description_de)
           bucket   == FindBucket(haystack)
       IN IF bucket = 0 \/ bucket \in DOMAIN bucketed THEN bucketed
          ELSE [b \in DOMAIN bucketed \cup {bucket} |->
                  IF b = bucket THEN entry ELSE bucketed[b]]

SubmissionBucket == CHOOSE b \in 1..Len(buckets) : buckets[b].key = "submission"

MaxTimelineSteps == 6

\* Number.MAX_SAFE_INTEGER, the index of the synthesized step; it is never
\* read, so it is kept as a symbol.
MAX_SAFE_INTEGER == "Number.MAX_SAFE_INTEGER"

\* buildTimelineSteps with the deadline step put in the submission slot even
\* when an extracted step holds it.
buildTimelineStepsDeadlineWins(steps, timeline, meta) ==
  Once(LAMBDA mapped :
         IF \E i \in 1..Len(mapped) : mapped[i] = Thrown THEN Thrown
         ELSE
           Once(LAMBDA extracted :
                  LET deadline == Get(timeline, "submission_deadline_de")
                      bucketed ==
                        IF Truthy(deadline)
                        THEN [b \in DOMAIN extracted \cup {SubmissionBucket} |->
                                IF b = SubmissionBucket
                                THEN [title_de        |-> Angebotsabgabe,
                                      description_de  |-> Abgabefrist \o JsToString(deadline),
                                      days_de         |-> <<>>,
                                      source_document |->
                                        Or(Or(Get(timeline, "source_document"), meta),
                                           Str(<<>>)),
                                      source_chunk_id |-> Null,
                                      index           |-> MAX_SAFE_INTEGER]
                                ELSE extracted[b]]
                        ELSE extracted
                      filled == SelectSeq(AsSeq([b \in 1..Len(buckets) |-> b]),
                                          LAMBDA b : b \in DOMAIN bucketed)
                      order  == Slice(filled, MaxTimelineSteps)
                  IN Returned(AsSeq([i \in 1..Len(order) |->
                       [step            |-> i,
                        title_de        |-> bucketed[order[i]].title_de,
                        description_de  |-> bucketed[order[i]].description_de,
                        days_de         |-> bucketed[order[i]].days_de,
                        source_document |-> bucketed[order[i]].source_document,
                        source_chunk_id |-> bucketed[order[i]].source_chunk_id]])),
                \* validSteps, and validSteps.forEach over them
                Once(LAMBDA validSteps : BucketSteps(validSteps, Len(validSteps)),
                     SelectSeq(AsSeq([i \in 1..Len(mapped) |-> mapped[i].val]),
                               LAMBDA c : Len(c.title_de) > 0
                                          /\ ~isPlaceholder(Str(c.title_de))))),
       AsSeq([i \in 1..Len(steps) |-> TimelineCandidate(steps[i], i - 1, meta)]))

\* buildTimelineSteps numbering each step by the position of its bucket
\* instead of its position in the output.
buildTimelineStepsBucketNumbers(steps, timeline, meta) ==
  Once(LAMBDA mapped :
         IF \E i \in 1..Len(mapped) : mapped[i] = Thrown THEN Thrown
         ELSE
           Once(LAMBDA extracted :
                  LET deadline == Get(timeline, "submission_deadline_de")
                      bucketed ==
                        IF SubmissionBucket \notin DOMAIN extracted /\ Truthy(deadline)
                        THEN [b \in DOMAIN extracted \cup {SubmissionBucket} |->
                                IF b = SubmissionBucket
                                THEN [title_de        |-> Angebotsabgabe,
                                      description_de  |-> Abgabefrist \o JsToString(deadline),
                                      days_de         |-> <<>>,
                                      source_document |->
                                        Or(Or(Get(timeline, "source_document"), meta),
                                           Str(<<>>)),
                                      source_chunk_id |-> Null,
                                      index           |-> MAX_SAFE_INTEGER]
                                ELSE extracted[b]]
                        ELSE extracted
                      filled == SelectSeq(AsSeq([b \in 1..Len(buckets) |-> b]),
                                          LAMBDA b : b \in DOMAIN bucketed)
                      order  == Slice(filled, MaxTimelineSteps)
                  IN Returned(AsSeq([i \in 1..Len(order) |->
                       [step            |-> order[i],
                        title_de        |-> bucketed[order[i]].title_de,
                        description_de  |-> bucketed[order[i]].description_de,
                        days_de         |-> bucketed[order[i]].days_de,
                        source_document |-> bucketed[order[i]].source_document,
                        source_chunk_id |-> bucketed[order[i]].source_chunk_id]])),
                \* validSteps, and validSteps.forEach over them
                Once(LAMBDA validSteps : BucketSteps(validSteps, Len(validSteps)),
                     SelectSeq(AsSeq([i \in 1..Len(mapped) |-> mapped[i].val]),
                               LAMBDA c : Len(c.title_de) > 0
                                          /\ ~isPlaceholder(Str(c.title_de))))),
       AsSeq([i \in 1..Len(steps) |-> TimelineCandidate(steps[i], i - 1, meta)]))

buildTimelineSteps(steps, timeline, meta) ==
  Once(LAMBDA mapped :
         IF \E i \in 1..Len(mapped) : mapped[i] = Thrown THEN Thrown
         ELSE
           Once(LAMBDA extracted :
                  LET deadline == Get(timeline, "submission_deadline_de")
                      bucketed ==
                        IF SubmissionBucket \notin DOMAIN extracted /\ Truthy(deadline)
                        THEN [b \in DOMAIN extracted \cup {SubmissionBucket} |->
                                IF b = SubmissionBucket
                                THEN [title_de        |-> Angebotsabgabe,
                                      description_de  |-> Abgabefrist \o JsToString(deadline),
                                      days_de         |-> <<>>,
                                      source_document |->
                                        Or(Or(Get(timeline, "source_document"), meta),
                                           Str(<<>>)),
                                      source_chunk_id |-> Null,
                                      index           |-> MAX_SAFE_INTEGER]
                                ELSE extracted[b]]
                        ELSE extracted
                      filled == SelectSeq(AsSeq([b \in 1..Len(buckets) |-> b]),
                                          LAMBDA b : b \in DOMAIN bucketed)
                      order  == Slice(filled, MaxTimelineSteps)
                  IN Returned(AsSeq([i \in 1..Len(order) |->
                       [step            |-> i,
                        title_de        |-> bucketed[order[i]].title_de,
                        description_de  |-> bucketed[order[i]].description_de,
                        days_de         |-> bucketed[order[i]].days_de,
                        source_document |-> bucketed[order[i]].source_document,
                        source_chunk_id |-> bucketed[order[i]].source_chunk_id]])),
                \* validSteps, and validSteps.forEach over them
                Once(LAMBDA validSteps : BucketSteps(validSteps, Len(validSteps)),
                     SelectSeq(AsSeq([i \in 1..Len(mapped) |-> mapped[i].val]),
                               LAMBDA c : Len(c.title_de) > 0
                                          /\ ~isPlaceholder(Str(c.title_de))))),
       AsSeq([i \in 1..Len(steps) |-> TimelineCandidate(steps[i], i - 1, meta)]))

----------------------------------------------------------------------------
(* mapSummaryToTender *)

\* JSON.parse(JSON.stringify(v)) of a value inside a document: NaN becomes
\* null, an undefined array element becomes null, an undefined property is
\* left out.
RECURSIVE JsonClone(_)
JsonClone(v) ==
  CASE v.type \in {"NaN", "undefined"} -> Null
    [] v.type = "array" ->
         Arr(AsSeq([i \in 1..Len(v.elems) |-> JsonClone(v.elems[i])]))
    [] v.type = "object" ->
         Obj([k \in {n \in DOMAIN v.fields : v.fields[n].type # "undefined"} |->
                JsonClone(v.fields[k])])
    [] OTHER -> v

\* Array.isArray(v) ? v : []
ArrayOrEmpty(v) == IF v.type = "array" THEN v.elems ELSE <<>>

\* list[0]?.source_document of a list of output records
FirstSource(list) == IF Len(list) > 0 THEN list[1].source_document ELSE Undefined

\* list.map(r => r.text)
Texts(list) == AsSeq([i \in 1..Len(list) |-> list[i].text])

MissingTitle        == <<"M","i","s","s","i","n","g"," ","T","i","t","l","e">>
MissingOrganization == <<"M","i","s","s","i","n","g"," ","O","r","g","a","n","i","z","a","t","i","o","n">>
DefaultRegion       == <<"D", "E">>
DefaultScore        == 85
ServiceTypeLimit    == 7

\* The .map callback of missingEvidenceWithSource.
MissingEvidenceCandidate(doc, meta) ==
  [text            |-> Or(Get(doc, "document_de"), Get(doc, "text")),
   source_document |-> Or(Or(Get(doc, "source_document"),
                             Get(meta, "source_document")), Str(<<>>)),
   source_chunk_id |-> Nullish(Get(doc, "source_chunk_id"), Null)]

\* The calls mapSummaryToTender makes on the sections of uiJson, each with
\* its result or Thrown.
MapSections(uiJson) ==
  LET meta         == Or(Get(uiJson, "meta"), EmptyObj)
      timeline     == Or(Get(uiJson, "timeline_milestones"), EmptyObj)
      metaDocument == Get(meta, "source_document")
  IN [submissionWithSource |->
        pickTopRequirements(ArrayOrEmpty(Get(uiJson, "mandatory_requirements")),
                            metaDocument),
      legalRisksWithSource |->
        pickTopRisks(ArrayOrEmpty(Get(uiJson, "risks")), metaDocument),
      evaluationCriteriaWithSource |->
        pickTopCriteria(ArrayOrEmpty(Get(uiJson, "evaluation_criteria")), metaDocument),
      evidence |->
        Once(LAMBDA missingEvidence :
               AsSeq([i \in 1..Len(missingEvidence) |->
                        MissingEvidenceCandidate(missingEvidence[i], meta)]),
             ArrayOrEmpty(Get(uiJson, "missing_evidence_documents"))),
      penalties |->
        pickTopStrings(ArrayOrEmpty(Get(uiJson, "contract_penalties")), TopN),
      certifications |->
        pickTopStrings(ArrayOrEmpty(Get(uiJson, "certifications_required")), TopN),
      timelineSteps |->
        buildTimelineSteps(ArrayOrEmpty(Get(uiJson, "process_steps")), timeline,
                           metaDocument),
      services |->
        pickTopStrings(ArrayOrEmpty(Get(uiJson, "service_types")), ServiceTypeLimit)]

\* One of the calls threw.
SectionThrows(parts) ==
  \/ parts.submissionWithSource = Thrown \/ parts.legalRisksWithSource = Thrown
  \/ parts.evaluationCriteriaWithSource = Thrown
  \/ \E i \in 1..Len(parts.evidence) : isPlaceholderThrows(parts.evidence[i].text)
  \/ parts.penalties = Thrown \/ parts.certifications = Thrown
  \/ parts.timelineSteps = Thrown \/ parts.services = Thrown

\* The tender mapSummaryToTender returns when no call threw.
MappedTender(payload, uiJson, parts) ==
  LET meta         == Or(Get(uiJson, "meta"), EmptyObj)
      executive    == Or(Get(uiJson, "executive_summary"), EmptyObj)
      timeline     == Or(Get(uiJson, "timeline_milestones"), EmptyObj)
      requirements == ArrayOrEmpty(Get(uiJson, "mandatory_requirements"))
      safety       == ArrayOrEmpty(Get(uiJson, "safety_requirements"))
      metaDocument == Get(meta, "source_document")
      deadline     == Or(Get(timeline, "submission_deadline_de"), Null)
      submissionWithSource == parts.submissionWithSource.val
      legalRisksWithSource == parts.legalRisksWithSource.val
      evaluationCriteriaWithSource == parts.evaluationCriteriaWithSource.val
      missingEvidenceWithSource ==
        Once(LAMBDA kept :
               AsSeq([i \in 1..Len(kept) |->
                 [text            |-> kept[i].text.val,
                  source_document |-> kept[i].source_document,
                  source_chunk_id |-> kept[i].source_chunk_id]]),
             SelectSeq(parts.evidence, LAMBDA doc : ~isPlaceholder(doc.text)))
      scopeOfWorkSource ==
        [text            |-> Or(Get(executive, "brief_description_de"), Str(<<>>)),
         source_document |-> Or(Or(Get(executive, "source_document"), metaDocument),
                                Str(<<>>)),
         source_chunk_id |-> Null]
      metaOrEmpty == Or(metaDocument, Str(<<>>))
  IN [id       |-> Or(Or(Get(meta, "tender_id"), payload.summary.run_id), payload.batchId),
      title    |-> Or(Or(Or(Get(meta, "tender_title"), Get(executive, "title_de")),
                         Get(meta, "tender_id")), Str(MissingTitle)),
      buyer    |-> Or(Or(Get(meta, "organization"), Get(executive, "organization_de")),
                      Str(MissingOrganization)),
      region   |-> Or(Get(executive, "location_de"), Str(DefaultRegion)),
      deadline |-> deadline,
      url      |-> Str(<<>>),
      score    |-> DefaultScore,
      legalRisks           |-> Texts(legalRisksWithSource),
      legalRisksWithSource |-> legalRisksWithSource,
      mustHits  |-> Min(Len(requirements), TopN),
      mustTotal |-> Min(Len(requirements), TopN),
      canHits   |-> 0,
      canTotal  |-> 0,
      serviceTypes      |-> parts.services.val,
      scopeOfWork       |-> Or(Get(executive, "brief_description_de"), Str(<<>>)),
      scopeOfWorkSource |-> scopeOfWorkSource,
      submission           |-> Texts(submissionWithSource),
      submissionWithSource |-> submissionWithSource,
      certifications       |-> parts.certifications.val,
      evaluationCriteria   |-> Texts(evaluationCriteriaWithSource),
      evaluationCriteriaWithSource |-> evaluationCriteriaWithSource,
      safety         |-> safety,
      penalties      |-> parts.penalties.val,
      processSteps   |-> parts.timelineSteps.val,
      projectDuration  |-> Or(Get(timeline, "project_duration_de"), Null),
      economicAnalysis |-> Or(Get(uiJson, "economic_analysis"), Undefined),
      missingEvidence           |-> Texts(missingEvidenceWithSource),
      missingEvidenceWithSource |-> missingEvidenceWithSource,
      sources |->
        [title          |-> metaOrEmpty,
         buyer          |-> Or(Or(metaDocument, Get(executive, "source_document")), Str(<<>>)),
         mustCriteria   |-> Or(Or(FirstSource(submissionWithSource), metaDocument), Str(<<>>)),
         logistics      |-> Or(Or(Get(executive, "source_document"), metaDocument), Str(<<>>)),
         deadline       |-> Or(Or(Get(timeline, "source_document"), metaDocument), Str(<<>>)),
         certifications |-> metaOrEmpty,
         scopeOfWork    |-> Or(Or(Get(executive, "source_document"), metaDocument), Str(<<>>)),
         pricingModel   |-> Str(<<>>),
         penalties      |-> metaOrEmpty,
         evaluationCriteria |->
           Or(Or(FirstSource(evaluationCriteriaWithSource), metaDocument), Str(<<>>)),
         submission     |-> Or(Or(FirstSource(submissionWithSource), metaDocument), Str(<<>>)),
         legalRisks     |-> Or(Or(FirstSource(legalRisksWithSource), metaDocument), Str(<<>>))]]

mapSummaryToTender(payload) ==
  Once(LAMBDA uiJson :
         Once(LAMBDA parts :
                IF SectionThrows(parts) THEN Thrown
                ELSE Returned(MappedTender(payload, uiJson, parts)),
              MapSections(uiJson)),
       JsonClone(Or(payload.summary.ui_json, EmptyObj)))

----------------------------------------------------------------------------
(* Sample texts and labels *)

LabelA  == <<"A">>
LabelB  == <<"B">>
LabelM  == <<"M">>

\* The values a source-document label is drawn from: absent, null, blank,
\* and labels with and without surrounding whitespace.
LabelValues ==
  { Undefined, Null, Str(<<>>), Str(<<" ">>),
    Str(LabelA), Str(<<" ", "A">>), Str(<<"A", " ", " ">>), Str(<<"a">>),
    Str(LabelB), Str(<<"\t", "B", " ">>), Str(<<"A", " ", "B">>) }

Bussgeld    == <<"B","u","s","s","g","e","l","d">>
Verspaetung == <<"V","e","r","s","p","a","e","t","u","n","g">>
Haftung     == <<"H","a","f","t","u","n","g">>
Frist       == <<"F","r","i","s","t">>
High        == <<"h","i","g","h">>
Medium      == <<"m","e","d","i","u","m">>
Low         == <<"l","o","w">>

\* A risk record { risk_de, severity, source_document }.
Risk(text, severity, source) ==
  Obj([risk_de |-> text, severity |-> severity, source_document |-> source])

\* The risk records the arrays are drawn from: first occurrences and
\* duplicates (in another letter case, padded), a placeholder text, a missing
\* and an unknown severity, a severity in capitals, present and absent labels,
\* duplicates from different chunks.
RiskPool ==
  { Risk(Str(Verspaetung), Str(Low), Undefined),
    Risk(Str(<<" ","v","E","R","S","P","A","E","T","U","N","G"," ">>), Str(High), Str(LabelB)),
    Risk(Str(Bussgeld), Str(High), Undefined),
    Risk(Str(Haftung), Str(Medium), Str(LabelA)),
    Risk(Str(<<"H","A","F","T","U","N","G">>), Str(<<"H","i","g","h">>), Str(LabelB)),
    Risk(Str(<<"T","B","D">>), Str(High), Str(LabelA)),
    Risk(Str(Frist), Undefined, Str(LabelA)),
    Obj([text |-> Str(Frist), severity |-> Str(<<"c","r","i","t","i","c","a","l">>),
         source_document |-> Str(LabelB), source_chunk_id |-> Str(<<"c","7">>)]),
    Obj([text |-> Str(<<" ","f","r","i","s","t">>), severity |-> Str(High),
         source_document |-> Str(LabelA), source_chunk_id |-> Str(<<"c","9">>)]) }

\* k further risks of medium severity with pairwise distinct texts; MaxFill
\* of them may precede the drawn records, so that more than TopN distinct
\* risks occur.
FillerRisks(k) ==
  AsSeq([i \in 1..k |-> Risk(Str(<<"e","x","t","r","a", Digits[i + 1]>>), Str(Medium), Undefined)])

MaxRisks == 3
MaxFill  == 4

Preis     == <<"P","r","e","i","s">>
Qualitaet == <<"Q","u","a","l","i","t","a","e","t">>
Termin    == <<"T","e","r","m","i","n">>

\* A criterion record { criterion_de, weight_percent, source_document };
\* a weight of Undefined is a missing weight_percent.
Criterion(text, weight, source) ==
  Obj([criterion_de |-> text, weight_percent |-> weight, source_document |-> source])

\* The criteria the arrays are drawn from: duplicates with a higher, an equal
\* and a lower weight, a weight of exactly 0, a missing and a null weight, a
\* placeholder text.
CriteriaPool ==
  { Criterion(Str(Preis), Num(30), Str(LabelA)),
    Criterion(Str(<<" ","p","r","e","i","s">>), Num(50), Str(LabelB)),
    Criterion(Str(<<"P","R","E","I","S">>), Num(30), Undefined),
    Criterion(Str(Qualitaet), Num(0), Str(LabelA)),
    Criterion(Str(Qualitaet), Num(20), Str(LabelB)),
    Criterion(Str(Termin), Undefined, Str(LabelA)),
    Criterion(Str(<<"t","e","r","m","i","n"," ">>), Null, Str(LabelB)),
    Criterion(Str(<<"n","/","a">>), Num(40), Str(LabelA)) }

MaxCriteria == 3

\* A record read by all three pickers through its text field.
Generic(text, severity, weight, source) ==
  Obj([text |-> text, severity |-> severity, weight_percent |-> weight,
       source_document |-> source])

\* Records with equal normalized texts and different labels.
GenericPool ==
  { Generic(Str(Haftung), Str(High), Num(10), Str(LabelA)),
    Generic(Str(<<" ","H","A","F","T","U","N","G">>), Str(Low), Num(20), Str(LabelB)),
    Generic(Str(<<"h","a","f","t","u","n","g">>), Str(Medium), Num(10), Str(LabelB)),
    Generic(Str(Haftung), Str(High), Num(5), Undefined),
    Generic(Str(Frist), Str(Low), Num(10), Str(LabelB)),
    Generic(Str(<<"f","r","i","s","t">>), Undefined, Num(0), Str(LabelA)) }

MaxGeneric == 3

Unbekannt == <<"u","n","b","e","k","a","n","n","t">>

\* More distinct records than a Top-N list holds.
ManyRecords == 6
ManyGeneric ==
  AsSeq([i \in 1..ManyRecords |->
           Generic(Str(<<"e","x","t","r","a", Digits[i + 1]>>), Str(Medium), Num(10),
                   Undefined)])

\* The same followed by a duplicate of the first record, in capitals and
\* padded, from document M.
LongItems ==
  Append(ManyGeneric,
         Generic(Str(<<" ","E","X","T","R","A","1"," ">>), Str(High), Num(10), Str(LabelM)))

\* Requirements with an explanation that is a placeholder, a description, a
\* blank explanation, and a placeholder in capitals before a description.
DetailItems == <<
  Obj([requirement_de |-> Str(Haftung), explanation_de |-> Str(Unbekannt)]),
  Obj([text |-> Str(Frist),
       description_de |-> Str(<<" ","D","r","e","i"," ","T","a","g","e"," ">>)]),
  Obj([requirement_de |-> Str(Preis), explanation |-> Str(<<" ">>)]),
  Obj([requirement_de |-> Str(Qualitaet), explanation_de |-> Str(<<"N","/","A">>),
       description_de |-> Str(<<"I","S","O">>)]) >>

\* A record whose severity is the name of an inherited member of the rank
\* table, a high record, and a second record with an unlisted severity.
Constructor == <<"c","o","n","s","t","r","u","c","t","o","r">>
Critical    == <<"c","r","i","t","i","c","a","l">>
InheritedSeverityItems == <<
  Generic(Str(Frist), Str(Constructor), Num(10), Str(LabelA)),
  Generic(Str(Haftung), Str(High), Num(10), Str(LabelB)),
  Generic(Str(Preis), Str(Critical), Num(10), Str(LabelB)) >>

\* All sequences over S of length at most n.
SeqsUpTo(S, n) == UNION {[1..k -> S] : k \in 0..n}

\* The arrays the three pickers are applied to.
PickInputs ==
  SeqsUpTo(GenericPool, MaxGeneric)
    \cup {LongItems, DetailItems, InheritedSeverityItems}

----------------------------------------------------------------------------
(* Components a specification leaves alone *)

MergeIdle == mergeA = Unused /\ mergeB = Unused /\ merged = Unused
PickIdle  == /\ items = Unused /\ metaSource = Unused
             /\ risksOut = Unused /\ reqsOut = Unused /\ critOut = Unused
WinIdle   == /\ winTender = Unused /\ winArgs = Unused
             /\ winProb = Unused /\ winPrev = Unused

MapIdle   == mapPayload = Unused /\ mapOut = Unused
TimelineIdle == /\ tlSteps = Unused /\ tlTimeline = Unused /\ tlMeta = Unused
                /\ tlOut = Unused /\ tlPrev = Unused
PlaceholderIdle == phText = Unused /\ phOut = Unused

CompIdle  == /\ step = Unused /\ mode = Unused /\ sortKey = Unused
             /\ results = Unused /\ selected = Unused /\ isProcessing = Unused
             /\ latestBatch = Unused /\ tendersError = Unused
             /\ loadingTenders = Unused /\ loadingTenderDetails = Unused
             /\ listFetches = Unused /\ detailFetches = Unused /\ started = Unused
ZoneIdle  == /\ up = Unused /\ zone = Unused /\ batches = Unused
             /\ calls = Unused /\ torn = Unused /\ late = Unused
AppIdle   == CompIdle /\ ZoneIdle /\ limits = Unused

OutsideMergeIdle ==
  PickIdle /\ WinIdle /\ MapIdle /\ TimelineIdle /\ PlaceholderIdle /\ AppIdle
OutsidePickIdle ==
  MergeIdle /\ WinIdle /\ MapIdle /\ TimelineIdle /\ PlaceholderIdle /\ AppIdle
OutsideWinIdle ==
  MergeIdle /\ PickIdle /\ MapIdle /\ TimelineIdle /\ PlaceholderIdle /\ AppIdle
OutsideMapIdle ==
  MergeIdle /\ PickIdle /\ WinIdle /\ TimelineIdle /\ PlaceholderIdle /\ AppIdle
OutsideTimelineIdle ==
  MergeIdle /\ PickIdle /\ WinIdle /\ MapIdle /\ PlaceholderIdle /\ AppIdle
OutsidePlaceholderIdle ==
  MergeIdle /\ PickIdle /\ WinIdle /\ MapIdle /\ TimelineIdle /\ AppIdle
OutsideAppIdle ==
  MergeIdle /\ PickIdle /\ WinIdle /\ MapIdle /\ TimelineIdle /\ PlaceholderIdle

----------------------------------------------------------------------------
(* SpecMerge: mergeSourceDocuments applied to two optional labels *)

MergeInit ==
  /\ mergeA \in LabelValues
  /\ mergeB \in LabelValues
  /\ merged = Pending
  /\ OutsideMergeIdle

CallMergeSourceDocuments ==
  /\ merged = Pending
  /\ merged' = LET r == mergeSourceDocuments(mergeA, mergeB)
                IN IF r = TypeError THEN Thrown ELSE Returned(r)
  /\ UNCHANGED <<mergeA, mergeB, outsideMerge>>

MergeNext == CallMergeSourceDocuments

SpecMerge == MergeInit /\ [][MergeNext]_vars

\* The trimmed label of an optional label value, empty if absent or blank.
LabelOf(v) == IF v.type = "string" THEN Trim(v.val) ELSE <<>>

\* C9: mergeSourceDocuments(a, b) is the distinct non-empty trimmed labels
\* among a and b joined by "; ", a before b: ("A","A") gives "A", ("A","B")
\* gives "A; B", (undefined,"B") gives "B", two absent or blank labels give "".
C9_MergeLabels ==
  merged # Pending =>
    /\ merged.state = "returned"
    /\ merged.val.type = "string"
    /\ LET la == LabelOf(mergeA)
           lb == LabelOf(mergeB)
       IN merged.val.val =
            IF la = <<>> THEN lb
            ELSE IF lb = <<>> \/ lb = la THEN la
            ELSE la \o <<";", " ">> \o lb
    /\ (mergeA = Str(LabelA) /\ mergeB = Str(LabelA) => merged.val = Str(<<"A">>))
    /\ (mergeA = Str(LabelA) /\ mergeB = Str(LabelB)
          => merged.val = Str(<<"A", ";", " ", "B">>))
    /\ (mergeA = Undefined /\ mergeB = Str(LabelB) => merged.val = Str(<<"B">>))
    /\ (mergeA \in {Undefined, Null, Str(<<>>), Str(<<" ">>)}
          /\ mergeB \in {Undefined, Null, Str(<<>>), Str(<<" ">>)}
          => merged.val = Str(<<>>))

\* Two labels that are equal only after trimming have been merged into one.
C9_Witness ==
  /\ mergeA = Str(<<" ", "A">>)
  /\ mergeB = Str(<<"A", " ", " ">>)
  /\ merged = Returned(Str(<<"A">>))

----------------------------------------------------------------------------
(* SpecRisks: pickTopRisks applied to an array of risk records *)

RisksInit ==
  /\ \E k \in {0, MaxFill} : \E core \in SeqsUpTo(RiskPool, MaxRisks) :
        items = FillerRisks(k) \o core
  /\ metaSource \in {Undefined, Str(LabelM)}
  /\ risksOut = Pending
  /\ reqsOut = Unused /\ critOut = Unused
  /\ OutsidePickIdle

CallPickTopRisks ==
  /\ risksOut = Pending
  /\ risksOut' = pickTopRisks(items, metaSource)
  /\ UNCHANGED <<items, metaSource, reqsOut, critOut, outsidePick>>

RisksNext == CallPickTopRisks

SpecRisks == RisksInit /\ [][RisksNext]_vars

----------------------------------------------------------------------------
(* SpecCriteria: pickTopCriteria applied to an array of criterion records *)

CriteriaInit ==
  /\ items \in SeqsUpTo(CriteriaPool, MaxCriteria)
  /\ metaSource \in {Undefined, Str(LabelM)}
  /\ critOut = Pending
  /\ risksOut = Unused /\ reqsOut = Unused
  /\ OutsidePickIdle

CallPickTopCriteria ==
  /\ critOut = Pending
  /\ critOut' = pickTopCriteria(items, metaSource)
  /\ UNCHANGED <<items, metaSource, risksOut, reqsOut, outsidePick>>

CriteriaNext == CallPickTopCriteria

SpecCriteria == CriteriaInit /\ [][CriteriaNext]_vars

----------------------------------------------------------------------------
(* SpecPick: the three pickers applied to one array of records *)

PickInit ==
  /\ items \in PickInputs
  /\ metaSource \in {Undefined, Str(LabelM), Str(<<" ">> \o LabelB)}
  /\ risksOut = Pending /\ reqsOut = Pending /\ critOut = Pending
  /\ OutsidePickIdle

PickRisks ==
  /\ risksOut = Pending
  /\ risksOut' = pickTopRisks(items, metaSource)
  /\ UNCHANGED <<items, metaSource, reqsOut, critOut, outsidePick>>

PickRequirements ==
  /\ reqsOut = Pending
  /\ reqsOut' = pickTopRequirements(items, metaSource)
  /\ UNCHANGED <<items, metaSource, risksOut, critOut, outsidePick>>

PickCriteria ==
  /\ critOut = Pending
  /\ critOut' = pickTopCriteria(items, metaSource)
  /\ UNCHANGED <<items, metaSource, risksOut, reqsOut, outsidePick>>

PickNext == PickRisks \/ PickRequirements \/ PickCriteria

SpecPick == PickInit /\ [][PickNext]_vars

----------------------------------------------------------------------------
(* SpecPlaceholder: isPlaceholder applied to a text, null or undefined *)

ToUpperChar(c) ==
  IF \E i \in 1..26 : LowerCase[i] = c
  THEN UpperCase[CHOOSE i \in 1..26 : LowerCase[i] = c]
  ELSE c

\* A text in the letter case given: as it is, in capitals, or capitalized.
InCase(s, case) ==
  AsSeq([i \in 1..Len(s) |->
           IF case = "upper" \/ (case = "title" /\ i = 1) THEN ToUpperChar(s[i])
           ELSE s[i]])

\* Whitespace before and after a text.
Paddings == { <<<<>>, <<>>>>, <<<<" ">>, <<>>>>, <<<<>>, <<"\t", "\n">>>>,
              <<<<" ", "\n">>, <<" ">>>> }

Baustelleneinrichtung == <<"B","a","u","s","t","e","l","l","e","n","e","i","n","r","i","c","h","t","u","n","g">>

\* The arguments: null, undefined, every vocabulary entry in three letter
\* cases with four paddings, and texts that are empty, blank, short, real,
\* or a vocabulary entry with a letter more, a doubled inner space, or
\* spaces inside.
PlaceholderTexts ==
  { Null, Undefined }
  \cup { Str(pad[1] \o InCase(entry, case) \o pad[2]) :
           entry \in PLACEHOLDERS, case \in {"lower", "upper", "title"}, pad \in Paddings }
  \cup { Str(<<>>), Str(<<" ", " ", " ", " ">>), Str(<<"a", "b">>), Str(<<" ", "O", "K", "\t">>),
         Str(<<"a", " ", "b">>), Str(<<"a", " ", " ", "b">>), Str(<<"a", "b", "c">>),
         Str(Baustelleneinrichtung), Str(Frist), Str(Unbekannt \o <<"e">>),
         Str(<<"n","i","c","h","t"," "," ","v","o","r","h","a","n","d","e","n">>),
         Str(<<"n", " ", "/", " ", "a">>), Str(<<"N", "o", "n", "e", ".">>) }

PlaceholderInit ==
  /\ phText \in PlaceholderTexts
  /\ phOut = Pending
  /\ OutsidePlaceholderIdle

CallIsPlaceholder ==
  /\ phOut = Pending
  /\ phOut' = Returned(isPlaceholder(phText))
  /\ UNCHANGED <<phText, outsidePlaceholder>>

PlaceholderNext == CallIsPlaceholder

SpecPlaceholder == PlaceholderInit /\ [][PlaceholderNext]_vars

\* Two characters are the same letter in either case, or the same character.
SameLetter(c, d) ==
  c = d \/ \E i \in 1..26 : {c, d} = {UpperCase[i], LowerCase[i]}

\* The text is the entry in some letter case between two runs of whitespace.
IsVariantOf(text, entry) ==
  \E lead \in 0..Len(text) :
    /\ lead + Len(entry) <= Len(text)
    /\ \A i \in 1..lead : text[i] \in Whitespace
    /\ \A i \in 1..Len(entry) : SameLetter(text[lead + i], entry[i])
    /\ \A i \in (lead + Len(entry) + 1)..Len(text) : text[i] \in Whitespace

\* C20: isPlaceholder(text) is true exactly when text is null, undefined or
\* empty, or its normalized form has fewer than 3 characters or is one of the
\* 11 vocabulary entries; it is true for every vocabulary entry in any letter
\* case between any whitespace, and false for "Baustelleneinrichtung".
C20_IsPlaceholder ==
  phOut # Pending =>
    /\ phOut.state = "returned"
    /\ Cardinality(PLACEHOLDERS) = 11
    /\ phOut.val <=>
         \/ phText \in {Null, Undefined, Str(<<>>)}
         \/ \E normalized \in {normalizeText(phText.val)} :
              Len(normalized) < 3 \/ normalized \in PLACEHOLDERS
    /\ (phText.type = "string" /\ \E entry \in PLACEHOLDERS : IsVariantOf(phText.val, entry))
         => phOut.val
    /\ phText = Str(Baustelleneinrichtung) => ~phOut.val

\* "Nicht vorhanden" after a space and a newline and before a space is a
\* placeholder.
C20_Witness ==
  /\ phText = Str(<<" ", "\n">> \o InCase(<<"n","i","c","h","t"," ","v","o","r","h","a","n","d","e","n">>, "title") \o <<" ">>)
  /\ IsVariantOf(phText.val, <<"n","i","c","h","t"," ","v","o","r","h","a","n","d","e","n">>)
  /\ phOut = Returned(TRUE)

----------------------------------------------------------------------------
(* SpecTimeline: buildTimelineSteps applied to the process steps of an       *)
(* extraction, recomputed when the timeline milestones change                *)

TitleFreigabe == Str(<<"F","r","e","i","g","a","b","e">>)
TitlePruefung == Str(<<"P","r","ü","f","u","n","g"," ","Z","u","s","c","h","l","a","g">>)
TitleAbgabe   == Str(<<" ","A","B","G","A","B","E"," ">>)
TitleAngebot  == Str(<<"A","n","g","e","b","o","t">>)
TitleTermin   == Str(<<"T","e","r","m","i","n">>)
TitleKickoff  == Str(<<"K","i","c","k","o","f","f">>)
TitlePlanung  == Str(<<"P","l","a","n","u","n","g">>)
TitleStart    == Str(<<"S","t","a","r","t">>)
TitleRueckfrage == Str(<<"R","ü","c","k","f","r","a","g","e">>)
TextIntern     == Str(<<"i","n","t","e","r","n">>)
TextEinreichen == Str(<<"e","i","n","r","e","i","c","h","e","n">>)
TextZuschlag   == Str(<<"Z","u","s","c","h","l","a","g">>)
TextDeadline   == Str(<<"1",".","1","2",".">>)

\* Process steps: for the review bucket (one of them also naming the award),
\* for the submission bucket (one of them upper case and padded), for the
\* award bucket through its description, for no bucket, with a placeholder
\* title, and with a title that is not a string.
StepPool == {
  Obj([title_de |-> TitleFreigabe, description_de |-> TextIntern]),
  Obj([title_de |-> TitlePruefung, source_document |-> Str(LabelB)]),
  Obj([title_de |-> TitleAbgabe, days_de |-> Str(<<"3">>)]),
  Obj([title_de |-> TitleAngebot, description_de |-> TextEinreichen]),
  Obj([title_de |-> TitleTermin, description_de |-> TextZuschlag]),
  Obj([title_de |-> TitleKickoff]),
  Obj([title_de |-> Str(Unbekannt), description_de |-> TitleStart]),
  Obj([title_de |-> Num(5)]) }

\* One step for every bucket, in the reverse of the declaration order, after
\* a step for no bucket.
StepsForAllBuckets == <<
  Obj([title_de |-> TitleKickoff]),
  Obj([title_de |-> TitleStart]),
  Obj([title_de |-> TitleTermin, description_de |-> TextZuschlag]),
  Obj([title_de |-> TitleRueckfrage]),
  Obj([title_de |-> TitleAngebot, description_de |-> TextEinreichen]),
  Obj([title_de |-> TitleFreigabe, description_de |-> TextIntern]),
  Obj([title_de |-> TitlePlanung]) >>

MaxSteps == 3

StepInputs == SeqsUpTo(StepPool, MaxSteps) \cup {StepsForAllBuckets}

\* timeline_milestones: without a deadline, with one, with one and its
\* source document, and with the placeholder as the deadline.
TimelinePool == {
  EmptyObj,
  Obj([submission_deadline_de |-> TextDeadline]),
  Obj([submission_deadline_de |-> TextDeadline, source_document |-> Str(LabelA)]),
  Obj([submission_deadline_de |-> Str(Unbekannt)]) }

TimelineInit ==
  /\ tlSteps \in StepInputs
  /\ tlTimeline \in TimelinePool
  /\ tlMeta \in {Undefined, Str(LabelM)}
  /\ tlOut = buildTimelineSteps(tlSteps, tlTimeline, tlMeta)
  /\ tlPrev = Pending
  /\ OutsideTimelineIdle

CallBuildTimelineSteps ==
  \E timeline \in TimelinePool \ {tlTimeline} :
    /\ tlTimeline' = timeline
    /\ tlOut' = buildTimelineSteps(tlSteps, timeline, tlMeta)
    /\ tlPrev' = Returned([timeline |-> tlTimeline, out |-> tlOut])
    /\ UNCHANGED <<tlSteps, tlMeta, outsideTimeline>>

TimelineNext == CallBuildTimelineSteps

SpecTimeline == TimelineInit /\ [][TimelineNext]_vars

----------------------------------------------------------------------------
(* Claims about buildTimelineSteps *)

\* The trimmed title and description of input step i.
StepTitle(i)       == TrimOrEmpty(Get(tlSteps[i], "title_de"))
StepDescription(i) == TrimOrEmpty(Get(tlSteps[i], "description_de"))

\* The position of the first bucket, in declaration order, a keyword of which
\* occurs in the normalized text; 0 if there is none.
FirstMatch(text) ==
  Once(LAMBDA hay :
         LET Matches(b) == \E k \in 1..Len(buckets[b].keywords) :
                             Includes(hay, buckets[b].keywords[k])
         IN IF \E b \in 1..Len(buckets) : Matches(b)
            THEN CHOOSE b \in 1..Len(buckets) :
                   Matches(b) /\ \A c \in 1..(b - 1) : ~Matches(c)
            ELSE 0,
       normalizeText(text))

\* The bucket input step i is assigned to: none (0) for a placeholder title.
StepBucket(i) ==
  IF isPlaceholder(Str(StepTitle(i))) THEN 0
  ELSE FirstMatch(StepTitle(i) \o <<" ">> \o StepDescription(i))

\* For every input step its bucket; for every input step and for every
\* output entry its title and description.
StepBuckets == AsSeq([i \in 1..Len(tlSteps) |-> StepBucket(i)])
StepTexts   == AsSeq([i \in 1..Len(tlSteps) |-> <<StepTitle(i), StepDescription(i)>>])
ShownTexts(out) ==
  AsSeq([k \in 1..Len(out) |-> <<out[k].title_de, out[k].description_de>>])

\* C13: every step that is the earliest one assigned to its bucket is in the
\* output, every input step found in the output is such a step, and no bucket
\* has two entries: a step whose first matching bucket is already filled is
\* dropped, whatever other buckets it matches.
C13_FirstBucketEarliestStep ==
  tlOut.state = "returned" =>
    \E bucketOf \in {StepBuckets} : \E text \in {StepTexts} :
    \E shown \in {ShownTexts(tlOut.val)} :
      LET Steps == 1..Len(tlSteps)
          Earliest(i) == bucketOf[i] # 0 /\ \A j \in 1..(i - 1) : bucketOf[j] # bucketOf[i]
          Shown(i) == \E k \in 1..Len(shown) : shown[k] = text[i]
      IN /\ \A i \in Steps : Earliest(i) => Shown(i)
         /\ \A i \in Steps :
              Shown(i) => \E j \in Steps : Earliest(j) /\ text[j] = text[i]
         /\ \A b \in 1..Len(buckets) :
              Cardinality({k \in 1..Len(shown) :
                             \E i \in Steps : bucketOf[i] = b /\ shown[k] = text[i]}) <= 1

\* The review step is followed by a step that names the review and the
\* award: the output has the first one only.
C13_Witness ==
  /\ tlSteps = << Obj([title_de |-> TitleFreigabe, description_de |-> TextIntern]),
                  Obj([title_de |-> TitlePruefung, source_document |-> Str(LabelB)]) >>
  /\ tlTimeline = EmptyObj
  /\ FirstMatch(TitlePruefung.val) = 2
  /\ FirstMatch(TextZuschlag.val) = 5
  /\ tlOut.state = "returned"
  /\ Len(tlOut.val) = 1
  /\ tlOut.val[1].title_de = TitleFreigabe.val

\* An output entry without its step number.
Unnumbered(e) ==
  [title_de |-> e.title_de, description_de |-> e.description_de, days_de |-> e.days_de,
   source_document |-> e.source_document, source_chunk_id |-> e.source_chunk_id]

C15_OrderedAndNumbered ==
  tlOut.state = "returned" =>
    \E bucketOf \in {StepBuckets} : \E out \in {tlOut.val} :
    \E bucketAt \in {AsSeq([k \in 1..Len(out) |->
                       FirstMatch(out[k].title_de \o <<" ">> \o out[k].description_de)])} :
      LET deadline == Get(tlTimeline, "submission_deadline_de")
          filled   == {bucketOf[i] : i \in 1..Len(tlSteps)} \ {0}
          nonEmpty == IF deadline.type = "string" /\ Len(deadline.val) > 0
                      THEN filled \cup {SubmissionBucket} ELSE filled
      IN /\ Len(out) <= 6
         /\ \A k \in 1..Len(out) : out[k].step = k
         /\ \A k \in 1..(Len(out) - 1) : bucketAt[k] < bucketAt[k + 1]
         /\ {bucketAt[k] : k \in 1..Len(out)} = nonEmpty

\* Seven steps, no bucket for the first and the six buckets in reverse order
\* for the others: six entries numbered 1..6, preparation first, execution
\* last.
C15_Witness ==
  /\ tlSteps = StepsForAllBuckets
  /\ tlTimeline = EmptyObj
  /\ tlOut.state = "returned" /\ Len(tlOut.val) = 6
  /\ tlOut.val[1].title_de = TitlePlanung.val /\ tlOut.val[1].step = 1
  /\ tlOut.val[3].title_de = TitleAngebot.val /\ tlOut.val[3].step = 3
  /\ tlOut.val[6].title_de = TitleStart.val /\ tlOut.val[6].step = 6

----------------------------------------------------------------------------
(* SpecMap: mapSummaryToTender applied to an extraction bundle *)

\* The value of a slot of the bundle: the override if there is one.
Slot(o, name, default) == IF name \in DOMAIN o THEN o[name] ELSE default

\* A complete bundle with one record in every section, in which the
\* overrides o replace the named sections, records and fields.
Bundle(o) ==
  Obj([
    meta |->
      Slot(o, "meta",
        Obj([tender_id |-> Slot(o, "meta.tender_id", Str(<<"T","-","1">>)),
              tender_title |-> Slot(o, "meta.tender_title", Str(<<"B","a","u","k","r","a","n"," ","M","i","e","t","e">>)),
              organization |-> Slot(o, "meta.organization", Str(<<"S","t","a","d","t"," ","B","o","n","n">>)),
              source_document |-> Slot(o, "meta.source_document", Str(<<"M">>))])),
    executive_summary |->
      Slot(o, "executive_summary",
        Obj([title_de |-> Slot(o, "executive_summary.title_de", Str(<<"K","r","a","n","m","i","e","t","e">>)),
              organization_de |-> Slot(o, "executive_summary.organization_de", Str(<<"B","o","n","n">>)),
              location_de |-> Slot(o, "executive_summary.location_de", Str(<<"B","o","n","n">>)),
              brief_description_de |-> Slot(o, "executive_summary.brief_description_de", Str(<<"L","i","e","f","e","r","u","n","g"," ","v","o","n"," ","K","r","a","n","e","n">>)),
              source_document |-> Slot(o, "executive_summary.source_document", Str(<<"E">>))])),
    timeline_milestones |->
      Slot(o, "timeline_milestones",
        Obj([submission_deadline_de |-> Slot(o, "timeline_milestones.submission_deadline_de", Str(<<"1",".","2",".","2","0","2","6">>)),
              project_duration_de |-> Slot(o, "timeline_milestones.project_duration_de", Str(<<"3"," ","M","o","n","a","t","e">>)),
              source_document |-> Slot(o, "timeline_milestones.source_document", Str(<<"T">>))])),
    mandatory_requirements |->
      Slot(o, "mandatory_requirements",
        Arr(<<Slot(o, "mandatory_requirements[0]",
         Obj([requirement_de |-> Slot(o, "mandatory_requirements.requirement_de", Str(<<"R","e","f","e","r","e","n","z","e","n">>)),
              explanation_de |-> Slot(o, "mandatory_requirements.explanation_de", Str(<<"D","r","e","i"," ","P","r","o","j","e","k","t","e">>)),
              source_document |-> Slot(o, "mandatory_requirements.source_document", Str(<<"A">>)),
              source_chunk_id |-> Slot(o, "mandatory_requirements.source_chunk_id", Str(<<"c","1">>))]))>>)),
    risks |->
      Slot(o, "risks",
        Arr(<<Slot(o, "risks[0]",
         Obj([risk_de |-> Slot(o, "risks.risk_de", Str(<<"H","a","f","t","u","n","g">>)),
              severity |-> Slot(o, "risks.severity", Str(<<"h","i","g","h">>)),
              source_document |-> Slot(o, "risks.source_document", Str(<<"A">>))]))>>)),
    evaluation_criteria |->
      Slot(o, "evaluation_criteria",
        Arr(<<Slot(o, "evaluation_criteria[0]",
         Obj([criterion_de |-> Slot(o, "evaluation_criteria.criterion_de", Str(<<"P","r","e","i","s">>)),
              weight_percent |-> Slot(o, "evaluation_criteria.weight_percent", Num(60)),
              source_document |-> Slot(o, "evaluation_criteria.source_document", Str(<<"A">>))]))>>)),
    process_steps |->
      Slot(o, "process_steps",
        Arr(<<Slot(o, "process_steps[0]",
         Obj([title_de |-> Slot(o, "process_steps.title_de", Str(<<"P","l","a","n","u","n","g">>)),
              description_de |-> Slot(o, "process_steps.description_de", Str(<<"B","e","d","a","r","f"," ","p","l","a","n","e","n">>)),
              days_de |-> Slot(o, "process_steps.days_de", Str(<<"1","0">>)),
              source_document |-> Slot(o, "process_steps.source_document", Str(<<"A">>))]))>>)),
    missing_evidence_documents |->
      Slot(o, "missing_evidence_documents",
        Arr(<<Slot(o, "missing_evidence_documents[0]",
         Obj([document_de |-> Slot(o, "missing_evidence_documents.document_de", Str(<<"N","a","c","h","w","e","i","s">>)),
              source_document |-> Slot(o, "missing_evidence_documents.source_document", Str(<<"B">>))]))>>)),
    service_types |->
      Slot(o, "service_types",
        Arr(<<Slot(o, "service_types[0]", Obj([text |-> Slot(o, "service_types[0].text", Str(<<"K","r","a","n">>))])), Str(<<"k","r","a","n"," ">>)>>)),
    contract_penalties |->
      Slot(o, "contract_penalties",
        Arr(<<Slot(o, "contract_penalties[0]", Obj([text |-> Slot(o, "contract_penalties[0].text", Str(<<"V","e","r","t","r","a","g","s","s","t","r","a","f","e">>))])), Str(<<"v","e","r","t","r","a","g","s","s","t","r","a","f","e"," ">>)>>)),
    certifications_required |->
      Slot(o, "certifications_required",
        Arr(<<Slot(o, "certifications_required[0]", Obj([text |-> Slot(o, "certifications_required[0].text", Str(<<"I","S","O"," ","9","0","0","1">>))])), Str(<<"i","s","o"," ","9","0","0","1"," ">>)>>)),
    safety_requirements |->
      Slot(o, "safety_requirements",
        Arr(<<Str(<<"H","e","l","m">>)>>))])
\* The sections, records and fields of the bundle that can be overridden.
Slots == {
  "meta", "meta.tender_id", "meta.tender_title",
  "meta.organization", "meta.source_document", "executive_summary",
  "executive_summary.title_de", "executive_summary.organization_de", "executive_summary.location_de",
  "executive_summary.brief_description_de", "executive_summary.source_document", "timeline_milestones",
  "timeline_milestones.submission_deadline_de", "timeline_milestones.project_duration_de", "timeline_milestones.source_document",
  "mandatory_requirements", "mandatory_requirements.requirement_de", "mandatory_requirements.explanation_de",
  "mandatory_requirements.source_document", "mandatory_requirements.source_chunk_id", "mandatory_requirements[0]",
  "risks", "risks.risk_de", "risks.severity",
  "risks.source_document", "risks[0]", "evaluation_criteria",
  "evaluation_criteria.criterion_de", "evaluation_criteria.weight_percent", "evaluation_criteria.source_document",
  "evaluation_criteria[0]", "process_steps", "process_steps.title_de",
  "process_steps.description_de", "process_steps.days_de", "process_steps.source_document",
  "process_steps[0]", "missing_evidence_documents", "missing_evidence_documents.document_de",
  "missing_evidence_documents.source_document", "missing_evidence_documents[0]", "service_types",
  "service_types[0]", "service_types[0].text", "contract_penalties",
  "contract_penalties[0]", "contract_penalties[0].text", "certifications_required",
  "certifications_required[0]", "certifications_required[0].text", "safety_requirements" }
TopLevelSlots == {"meta", "executive_summary", "timeline_milestones", "mandatory_requirements", "risks", "evaluation_criteria", "process_steps", "missing_evidence_documents", "service_types", "contract_penalties", "certifications_required", "safety_requirements"}

\* What the extraction service puts in a field: nothing, null, a text, a
\* placeholder, a number, a nested object.
FieldValues ==
  { Undefined, Null, Str(Unbekannt), Str(Frist), Str(<<>>), Num(5),
    Obj([text |-> Num(5)]) }

\* The placeholder in place of every section, and in every field of every
\* section and record.
AllSectionsUnbekannt == [n \in TopLevelSlots |-> Str(Unbekannt)]
AllFieldsUnbekannt   == [n \in Slots \ TopLevelSlots |-> Str(Unbekannt)]

\* More records than a Top-N list holds in every section that feeds one, and
\* a step for every bucket.
LongSections ==
  [n \in {"risks", "mandatory_requirements", "evaluation_criteria",
          "missing_evidence_documents", "process_steps"} |->
     IF n = "process_steps" THEN Arr(StepsForAllBuckets) ELSE Arr(ManyGeneric)]

\* The overrides: none, one slot with one value, the placeholder in every
\* section or in every field, or long sections.
Overrides ==
  {[n \in {} |-> Null]}
  \cup {[n \in {name} |-> v] : name \in Slots, v \in FieldValues}
  \cup {AllSectionsUnbekannt, AllFieldsUnbekannt, LongSections}

Payload(uiJson) ==
  [batchId |-> Str(<<"b", "1">>),
   summary |-> [run_id |-> Str(<<"r", "1">>), ui_json |-> uiJson]]

MapInit ==
  /\ mapPayload \in {Payload(Bundle(o)) : o \in Overrides}
                    \cup {Payload(Undefined), Payload(EmptyObj)}
  /\ mapOut = Pending
  /\ OutsideMapIdle

CallMapSummaryToTender ==
  /\ mapOut = Pending
  /\ mapOut' = mapSummaryToTender(mapPayload)
  /\ UNCHANGED <<mapPayload, outsideMap>>

MapNext == CallMapSummaryToTender

SpecMap == MapInit /\ [][MapNext]_vars

----------------------------------------------------------------------------
(* Claims about pickTopRisks *)

\* What the claims about pickTopRisks say of an input record r: its text,
\* its lower-cased severity, whether it has a non-placeholder text, whether
\* it also has a severity, and its normalized text.
RiskText(r) ==
  LET t == Or(Or(Get(r, "risk_de"), Get(r, "text")), Str(<<>>))
  IN IF t.type = "string" THEN Trim(t.val) ELSE <<>>
RiskSeverity(r) ==
  LET v == Get(r, "severity")
  IN IF v.type = "string" THEN ToLowerCase(v.val) ELSE <<>>
RiskHasText(r) == ~isPlaceholder(Str(RiskText(r)))
RiskIsKept(r)  == RiskHasText(r) /\ RiskSeverity(r) # <<>>
RiskKey(r)     == normalizeText(RiskText(r))

\* The severity tier the claims speak of: high > medium > low.
ClaimTier(severity) ==
  IF severity = High THEN 3 ELSE IF severity = Medium THEN 2 ELSE 1

\* The smallest element of a non-empty set of numbers, 0 for the empty set.
MinOr0(S) == IF S = {} THEN 0 ELSE CHOOSE i \in S : \A j \in S : i <= j

HighAfterMediumOrdered(firstOnly) ==
  LET out   == risksOut.val
      n     == Len(items)
      key   == AsSeq([i \in 1..n |-> RiskKey(items[i])])
      kept  == AsSeq([i \in 1..n |-> RiskIsKept(items[i])])
      sev   == AsSeq([i \in 1..n |-> RiskSeverity(items[i])])
      okey  == AsSeq([k \in 1..Len(out) |-> normalizeText(out[k].text)])
      first == AsSeq([i \in 1..n |-> MinOr0({i2 \in 1..n : kept[i2] /\ key[i2] = key[i]})])
      at    == AsSeq([i \in 1..n |-> MinOr0({k \in 1..Len(out) : okey[k] = key[i]})])
  IN \A i, j \in 1..n :
       ( /\ i < j
         /\ kept[i] /\ sev[i] = Medium
         /\ kept[j] /\ sev[j] = High
         /\ key[i] # key[j]
         /\ firstOnly => (first[i] = i /\ first[j] = j)
         /\ at[i] # 0 )
       => (at[j] # 0 /\ at[j] < at[i])

RiskLabel(r, meta) == Or(Or(Get(r, "source_document"), meta), Str(<<>>))

\* The positions of the records that pickTopRisks keeps and whose normalized
\* text is key, in input order.
RiskPositions(key) ==
  SelectSeq(AsSeq([i \in 1..Len(items) |-> i]),
            LAMBDA i : RiskIsKept(items[i]) /\ RiskKey(items[i]) = key)

\* The label of the first of these records, merged with the label of each
\* later one in turn.
RECURSIVE MergedRiskLabel(_, _, _)
MergedRiskLabel(at, n, meta) ==
  IF n = 1 THEN RiskLabel(items[at[1]], meta)
  ELSE mergeSourceDocuments(MergedRiskLabel(at, n - 1, meta),
                            RiskLabel(items[at[n]], meta))

\* C23: a duplicate changes only the label of the record pickTopRisks keeps:
\* every output record has the trimmed text and the source_chunk_id of the
\* first kept input record with its normalized text, its source_document is
\* that record's label merged with the labels of the later duplicates, and
\* the output is ordered by the severity and the input index of these first
\* records, whatever the severity of a later duplicate.
C23_FirstSeenRecordKept ==
  risksOut.state = "returned" =>
    LET out == risksOut.val
        at  == AsSeq([k \in 1..Len(out) |-> RiskPositions(normalizeText(out[k].text))])
    IN /\ \A k \in 1..Len(out) :
            /\ Len(at[k]) > 0
            /\ out[k].text = RiskText(items[at[k][1]])
            /\ out[k].source_chunk_id =
                 Nullish(Get(items[at[k][1]], "source_chunk_id"), Null)
            /\ out[k].source_document =
                 MergedRiskLabel(at[k], Len(at[k]), metaSource)
       /\ \A k1, k2 \in 1..Len(out) :
            k1 < k2 =>
              LET t1 == ClaimTier(RiskSeverity(items[at[k1][1]]))
                  t2 == ClaimTier(RiskSeverity(items[at[k2][1]]))
              IN t1 > t2 \/ (t1 = t2 /\ at[k1][1] < at[k2][1])

\* A medium risk, an unranked risk from chunk c7 and label B, and a high
\* duplicate of the latter from chunk c9 and label A: the kept record stays
\* behind the medium one with the first text and chunk and the label "B; A".
C23_Witness ==
  /\ risksOut.state = "returned"
  /\ Len(items) = 3
  /\ RiskText(items[1]) = Haftung /\ RiskSeverity(items[1]) = Medium
  /\ RiskText(items[2]) = Frist
  /\ Get(items[2], "source_chunk_id") = Str(<<"c","7">>)
  /\ RiskKey(items[3]) = RiskKey(items[2]) /\ RiskSeverity(items[3]) = High
  /\ Get(items[3], "source_chunk_id") = Str(<<"c","9">>)
  /\ risksOut.val = << [text |-> Haftung, source_document |-> Str(LabelA),
                        source_chunk_id |-> Null],
                       [text |-> Frist,
                        source_document |-> Str(<<"B", ";", " ", "A">>),
                        source_chunk_id |-> Str(<<"c","7">>)] >>

\* C24 as stated: pickTopRisks drops the records with an empty or placeholder
\* text and those with an absent or empty severity, and keeps every other
\* record (up to the five best, one per normalized text), one with a severity
\* other than high, medium and low ranked in the tier of low: behind every
\* high and medium record, and among the low ones in input order.
C24_AsStated ==
  risksOut.state = "returned" =>
    LET out  == risksOut.val
        n    == Len(items)
        keys == {RiskKey(items[i]) : i \in {j \in 1..n : RiskIsKept(items[j])}}
        at   == AsSeq([k \in 1..Len(out) |-> RiskPositions(normalizeText(out[k].text))])
    IN /\ \A k \in 1..Len(out) : Len(at[k]) > 0
       /\ Len(out) = IF Cardinality(keys) < 5 THEN Cardinality(keys) ELSE 5
       /\ \A k1, k2 \in 1..Len(out) :
            k1 < k2 =>
              LET t1 == ClaimTier(RiskSeverity(items[at[k1][1]]))
                  t2 == ClaimTier(RiskSeverity(items[at[k2][1]]))
              IN t1 > t2 \/ (t1 = t2 /\ at[k1][1] < at[k2][1])

----------------------------------------------------------------------------
(* Claims about pickTopCriteria and about the labels of duplicates *)

HasPrefix(s, prefix) ==
  Len(s) >= Len(prefix) /\ SubSeq(s, 1, Len(prefix)) = prefix

\* The trimmed text of an input record read through `field` or text, empty
\* if it is not a string.
TextOf(r, field) ==
  LET t == Or(Or(Get(r, field), Get(r, "text")), Str(<<>>))
  IN IF t.type = "string" THEN Trim(t.val) ELSE <<>>

\* The positions of the criteria with a non-placeholder text normalized to
\* key and a weight other than 0 (the records pickTopCriteria does not
\* discard), in input order.
CriterionPositions(key) ==
  SelectSeq(AsSeq([i \in 1..Len(items) |-> i]),
            LAMBDA i : /\ ~isPlaceholder(Str(TextOf(items[i], "criterion_de")))
                       /\ normalizeText(TextOf(items[i], "criterion_de")) = key
                       /\ Get(items[i], "weight_percent") # Num(0))

\* The first of the positions at whose record has the greatest weight.
FirstHeaviest(at) ==
  CHOOSE n \in 1..Len(at) :
    /\ \A m \in 1..Len(at) :
         Get(items[at[m]], "weight_percent").num <= Get(items[at[n]], "weight_percent").num
    /\ \A m \in 1..(n - 1) :
         Get(items[at[m]], "weight_percent").num < Get(items[at[n]], "weight_percent").num

\* The label of the record at[from], merged with the label of each record
\* at[from + 1] .. at[to] in turn.
RECURSIVE MergedCriterionLabel(_, _, _, _)
MergedCriterionLabel(at, from, to, meta) ==
  IF to = from THEN RiskLabel(items[at[from]], meta)
  ELSE mergeSourceDocuments(MergedCriterionLabel(at, from, to - 1, meta),
                            RiskLabel(items[at[to]], meta))

\* The record the claim C25 expects for the criteria at the positions at.
ExpectedCriterion(at, meta) ==
  LET n == FirstHeaviest(at)
      r == items[at[n]]
  IN [text |-> CriterionText([text   |-> TextOf(r, "criterion_de"),
                              weight |-> Get(r, "weight_percent")]),
      source_document |-> MergedCriterionLabel(at, n, Len(at), meta),
      source_chunk_id |-> Nullish(Get(r, "source_chunk_id"), Null)]

\* C25: on an array of criteria with numeric weights, pickTopCriteria
\* outputs one record per normalized text (of the records it does not
\* discard, up to five): it has the text, the weight and the source of the
\* first record that reaches the greatest weight among the records with that
\* text, its source_document merged with the labels of the later ones.
C25_FirstHeaviestKept ==
  ( /\ critOut.state = "returned"
    /\ \A i \in 1..Len(items) : Get(items[i], "weight_percent").type = "number" )
  =>
    LET out  == critOut.val
        keys == {normalizeText(TextOf(items[i], "criterion_de")) : i \in 1..Len(items)}
        kept == {key \in keys : Len(CriterionPositions(key)) > 0}
        want == [key \in kept |-> ExpectedCriterion(CriterionPositions(key), metaSource)]
    IN /\ Len(out) = IF Cardinality(kept) < 5 THEN Cardinality(kept) ELSE 5
       /\ \A k \in 1..Len(out) : \E key \in kept : out[k] = want[key]
       /\ \A k1, k2 \in 1..Len(out) : k1 # k2 => out[k1] # out[k2]

\* Preis with weight 30 from A, then with weight 50 from B, then with weight
\* 30 and no label: one record, " preis" trimmed with 50%, the label of B
\* merged with the meta source of the last record.
C25_Witness ==
  /\ critOut = Returned(<< [text |-> <<"p","r","e","i","s"," ","(","5","0","%",")">>,
                            source_document |-> Str(<<"B", ";", " ", "M">>),
                            source_chunk_id |-> Null] >>)
  /\ Len(items) = 3
  /\ Get(items[1], "weight_percent") = Num(30)
  /\ Get(items[2], "weight_percent") = Num(50)
  /\ Get(items[3], "weight_percent") = Num(30)

\* An output text is that of the input text with this normalized form: the
\* bare text, or the text followed by " (<weight>%)".
OutputTextIs(outText, key) ==
  LET t == normalizeText(outText)
  IN t = key \/ HasPrefix(t, key \o <<" ", "(">>)

\* C7: pickTopCriteria drops every record whose weight_percent is exactly the
\* number 0 (a text whose records all have weight 0 is not output), and keeps
\* every record with non-placeholder text whose weight_percent is missing
\* (absent or null), showing it as bare text without a percentage.
C7_AsStated ==
  critOut.state = "returned" =>
    LET out     == critOut.val
        n       == Len(items)
        key     == AsSeq([i \in 1..n |-> normalizeText(TextOf(items[i], "criterion_de"))])
        hasText == AsSeq([i \in 1..n |-> ~isPlaceholder(Str(TextOf(items[i], "criterion_de")))])
        weight  == AsSeq([i \in 1..n |-> Get(items[i], "weight_percent")])
    IN \A i \in 1..n :
         /\ ( /\ hasText[i] /\ weight[i] = Num(0)
              /\ \A j \in 1..n : key[j] = key[i] => weight[j] = Num(0) )
            => \A k \in 1..Len(out) : ~OutputTextIs(out[k].text, key[i])
         /\ (hasText[i] /\ weight[i] \in {Undefined, Null})
            => \E k \in 1..Len(out) : OutputTextIs(out[k].text, key[i])
         /\ ( /\ hasText[i]
              /\ \A j \in 1..n : key[j] = key[i] => weight[j] \in {Undefined, Null} )
            => \E k \in 1..Len(out) : normalizeText(out[k].text) = key[i]

\* For every two records i < j that are eligible, have the same normalized
\* text and different non-empty labels, each output record with that text
\* has a source_document that contains both labels.
BothLabelsKept(out, field, eligible) ==
  LET n   == Len(items)
      key == AsSeq([i \in 1..n |-> normalizeText(TextOf(items[i], field))])
      lab == AsSeq([i \in 1..n |-> LabelOf(Get(items[i], "source_document"))])
  IN \A i, j \in 1..n :
       ( /\ i < j /\ eligible[i] /\ eligible[j]
         /\ key[i] = key[j]
         /\ lab[i] # <<>> /\ lab[j] # <<>> /\ lab[i] # lab[j] )
       => \A k \in 1..Len(out) :
            OutputTextIs(out[k].text, key[i])
            => /\ out[k].source_document.type = "string"
               /\ Includes(out[k].source_document.val, lab[i])
               /\ Includes(out[k].source_document.val, lab[j])

\* Record i has a non-placeholder text.
HasText(field) ==
  AsSeq([i \in 1..Len(items) |-> ~isPlaceholder(Str(TextOf(items[i], field)))])

\* C8 as stated: in pickTopRisks, pickTopRequirements and pickTopCriteria, two
\* input records with non-placeholder text, the same normalized text and
\* different non-empty labels leave both labels in the source_document of the
\* surviving output record.
C8_AsStated ==
  /\ risksOut.state = "returned"
       => BothLabelsKept(risksOut.val, "risk_de", HasText("risk_de"))
  /\ reqsOut.state = "returned"
       => BothLabelsKept(reqsOut.val, "requirement_de", HasText("requirement_de"))
  /\ critOut.state = "returned"
       => BothLabelsKept(critOut.val, "criterion_de", HasText("criterion_de"))

\* Record i reaches the merge of pickTopRisks: it has a text and a severity.
RiskEligible == AsSeq([i \in 1..Len(items) |-> RiskIsKept(items[i])])

\* Record i reaches the merge of pickTopCriteria and its label is never
\* replaced: it has a text and a non-zero weight, and no record with its text
\* has a weight above that of the first such record.
CriterionEligible ==
  LET n   == Len(items)
      key == AsSeq([i \in 1..n |-> normalizeText(TextOf(items[i], "criterion_de"))])
      in  == AsSeq([i \in 1..n |->
                 /\ ~isPlaceholder(Str(TextOf(items[i], "criterion_de")))
                 /\ CriterionWeight(items[i]) # Num(0)])
      first == AsSeq([i \in 1..n |-> MinOr0({j \in 1..n : in[j] /\ key[j] = key[i]})])
  IN AsSeq([i \in 1..n |->
       /\ in[i]
       /\ \A j \in 1..n :
            (in[j] /\ key[j] = key[i])
            => ~NumGt(CriterionWeight(items[j]), CriterionWeight(items[first[i]]))])

\* The label pickTopRequirements outputs for a text: that of the first record
\* with the text in its order (records of the primary source first, then
\* input order), the primary source if that record has none.
RequirementLabel(key) ==
  LET n       == Len(items)
      primary == Str(LabelOf(metaSource))
      with    == {i \in 1..n :
                    /\ ~isPlaceholder(Str(TextOf(items[i], "requirement_de")))
                    /\ normalizeText(TextOf(items[i], "requirement_de")) = key}
      ofPrimary == {i \in with :
                      Or(Get(items[i], "source_document"), Str(<<>>)) = primary}
      chosen  == IF ofPrimary # {} THEN MinOr0(ofPrimary) ELSE MinOr0(with)
  IN Or(Or(Get(items[chosen], "source_document"), primary), Str(<<>>))

\* C8, amended: both labels are in the surviving record's source_document
\* in pickTopRisks when both records have a severity, and in pickTopCriteria
\* when both have a non-zero weight and no record with their text has a
\* weight above that of the first one; pickTopRequirements merges nothing
\* and outputs the label of the first record in its order alone.
C8_LabelsOfDuplicates ==
  /\ risksOut.state = "returned"
       => BothLabelsKept(risksOut.val, "risk_de", RiskEligible)
  /\ critOut.state = "returned"
       => BothLabelsKept(critOut.val, "criterion_de", CriterionEligible)
  /\ reqsOut.state = "returned"
       => \A k \in 1..Len(reqsOut.val) :
            reqsOut.val[k].source_document
              = RequirementLabel(normalizeText(reqsOut.val[k].text))

\* The same text came from document A and then from document B, with the
\* same weight: risks and criteria name both documents, requirements only A.
C8_Witness ==
  /\ Len(items) = 2
  /\ items[1] = Generic(Str(Haftung), Str(High), Num(10), Str(LabelA))
  /\ items[2] = Generic(Str(<<"h","a","f","t","u","n","g">>), Str(Medium), Num(10), Str(LabelB))
  /\ risksOut.state = "returned" /\ reqsOut.state = "returned"
  /\ critOut.state = "returned"
  /\ risksOut.val[1].source_document = Str(<<"A", ";", " ", "B">>)
  /\ critOut.val[1].source_document = Str(<<"A", ";", " ", "B">>)
  /\ reqsOut.val[1].source_document = Str(<<"A">>)

\* The number of places at which label occurs in the string s.
Occurrences(s, label) ==
  Cardinality({i \in 1..(Len(s) - Len(label) + 1) :
                 SubSeq(s, i, i + Len(label) - 1) = label})

\* C26 as stated: however many duplicates pickTopRisks has merged, each
\* label occurs at most once in the source_document of the kept record, and
\* merging the second label again changes nothing:
\* mergeSourceDocuments(mergeSourceDocuments(a, b), b) = mergeSourceDocuments(a, b)
\* for the labels a, b of any two input records.
C26_AsStated ==
  risksOut.state = "returned" =>
    /\ \A k \in 1..Len(risksOut.val) :
         \A label \in {LabelA, LabelB, LabelM} :
           Occurrences(risksOut.val[k].source_document.val, label) <= 1
    /\ \A i, j \in 1..Len(items) :
         LET a == RiskLabel(items[i], metaSource)
             b == RiskLabel(items[j], metaSource)
         IN mergeSourceDocuments(mergeSourceDocuments(a, b), b)
              = mergeSourceDocuments(a, b)

----------------------------------------------------------------------------
(* Claims about pickTopRequirements *)

\* C18: pickTopRequirements returns at most 5 records with pairwise distinct
\* normalized texts.  Order the input records with non-placeholder text so
\* that those whose source_document is the primary meta source come first,
\* then by input index, and keep for each normalized text the first record
\* in that order: the output is the first 5 kept records in that order, each
\* with its text and its source_document, or with the primary meta source
\* if it has none.
C18_RequirementsOrdered ==
  reqsOut.state = "returned" =>
    \E text \in {AsSeq([i \in 1..Len(items) |-> TextOf(items[i], "requirement_de")])} :
    \E key \in {AsSeq([i \in 1..Len(items) |-> normalizeText(text[i])])} :
    \E valid \in {HasText("requirement_de")} :
      LET n       == Len(items)
          out     == reqsOut.val
          primary == Str(LabelOf(metaSource))
          src(i)  == Or(Get(items[i], "source_document"), Str(<<>>))
          rank(i) == IF src(i) = primary THEN 0 ELSE 1
          Before(i, j) == rank(i) < rank(j) \/ (rank(i) = rank(j) /\ i < j)
          Kept == {i \in 1..n :
                     /\ valid[i]
                     /\ \A j \in 1..n \ {i} : (valid[j] /\ key[j] = key[i]) => Before(i, j)}
          at(k) == CHOOSE i \in Kept : Cardinality({j \in Kept : Before(j, i)}) = k - 1
      IN /\ Len(out) <= 5
         /\ Len(out) = IF Cardinality(Kept) > 5 THEN 5 ELSE Cardinality(Kept)
         /\ \A k1, k2 \in 1..Len(out) :
              k1 < k2 => normalizeText(out[k1].text) # normalizeText(out[k2].text)
         /\ \A k \in 1..Len(out) :
              /\ out[k].text = text[at(k)]
              /\ out[k].source_document =
                   IF src(at(k)) = Str(<<>>) THEN primary ELSE src(at(k))

\* Six distinct requirements without a source_document, then a duplicate of
\* the first from the primary document M: the duplicate leads the output
\* with label M, the others follow with the primary source, the sixth is cut.
C18_Witness ==
  /\ items = LongItems
  /\ metaSource = Str(LabelM)
  /\ reqsOut.state = "returned"
  /\ Len(reqsOut.val) = 5
  /\ reqsOut.val[1].text = <<"E","X","T","R","A","1">>
  /\ reqsOut.val[1].source_document = Str(LabelM)
  /\ reqsOut.val[2].text = <<"e","x","t","r","a","2">>
  /\ reqsOut.val[2].source_document = Str(LabelM)
  /\ reqsOut.val[5].text = <<"e","x","t","r","a","5">>

\* C27 as stated: with a non-empty primary meta source, every output record
\* of pickTopRequirements whose source_document is the primary source comes
\* before every output record whose source_document is another document.
C27_AsStated ==
  reqsOut.state = "returned" =>
    LET out     == reqsOut.val
        primary == Str(LabelOf(metaSource))
    IN primary # Str(<<>>) =>
         \A k1, k2 \in 1..Len(out) :
           ( /\ out[k1].source_document = primary
             /\ out[k2].source_document # primary
             /\ out[k2].source_document # Str(<<>>) )
           => k1 < k2

\* The explanation or description text of an input record, trimmed; empty
\* if it is not a string.
DetailOf(r) ==
  LET t == Or(Or(Or(Get(r, "explanation_de"), Get(r, "explanation")),
                 Get(r, "description_de")), Str(<<>>))
  IN IF t.type = "string" THEN Trim(t.val) ELSE <<>>

\* C19: an output record of pickTopRequirements has no detail when the
\* explanation/description text of the input records with its text is a
\* placeholder.
C19_AsStated ==
  reqsOut.state = "returned" =>
    \E text \in {AsSeq([i \in 1..Len(items) |-> TextOf(items[i], "requirement_de")])} :
      \A k \in 1..Len(reqsOut.val) :
        (\A i \in 1..Len(items) :
           text[i] = reqsOut.val[k].text => isPlaceholder(Str(DetailOf(items[i]))))
        => reqsOut.val[k].detail = Undefined

----------------------------------------------------------------------------
(* computeWinProbability *)

\* The ids of the required questions, in declaration order.
REQUIRED_Q ==
  <<"experience", "fleetCapacity", "equipmentTypes", "logistics",
    "operators", "maintenance", "safety", "emergency">>

\* Math.round of the rational num / den (den > 0): halves go up.
Round(num, den) == (2 * num + den) \div (2 * den)

\* !(answers[q.id]?.trim()): the answer is absent or only whitespace.
Unanswered(answers, id) ==
  id \notin DOMAIN answers \/ Trim(answers[id]) = <<>>

\* REQUIRED_Q.filter((q) => !(answers[q.id]?.trim())).length
QMissing(answers) ==
  Cardinality({i \in 1..Len(REQUIRED_Q) : Unanswered(answers, REQUIRED_Q[i])})

\* computeWinProbability without the document penalty
computeWinProbabilityNoDocPenalty(tender, missingCount, answers, mustPct) ==
  IF tender = Null THEN 0
  ELSE LET base      == Max(0, tender.score - QMissing(answers) * 3)
           mustBoost == Round(mustPct * 2, 10)
       IN Max(1, Min(99, Round((base + mustBoost) * 9 + 50, 10)))

\* computeWinProbability with the document penalty added instead of subtracted
computeWinProbabilityDocBonus(tender, missingCount, answers, mustPct) ==
  IF tender = Null THEN 0
  ELSE LET base      == Max(0, tender.score + missingCount * 4 - QMissing(answers) * 3)
           mustBoost == Round(mustPct * 2, 10)
       IN Max(1, Min(99, Round((base + mustBoost) * 9 + 50, 10)))

computeWinProbability(tender, missingCount, answers, mustPct) ==
  IF tender = Null THEN 0
  ELSE LET docPenalty == missingCount * 4
           qMissing   == QMissing(answers)
           qPenalty   == qMissing * 3
           base       == Max(0, tender.score - docPenalty - qPenalty)
           mustBoost  == Round(mustPct * 2, 10)
       IN Max(1, Min(99, Round((base + mustBoost) * 9 + 50, 10)))

\* The tenders: null, or a tender with an overall match score 0..100.
MaxScore == 100
Tenders == {Null} \cup {Obj([score |-> n]) : n \in 0..MaxScore}

\* The answers maps: none, every question answered "ok", and one with two
\* answers, one blank answer and five absent ones.
NoAnswers == [id \in {} |-> <<>>]
okAnswers == [id \in {REQUIRED_Q[i] : i \in 1..Len(REQUIRED_Q)} |-> <<"o", "k">>]
SomeAnswers ==
  [id \in {"experience", "logistics", "safety"} |->
     IF id = "experience" THEN <<"o", "k">>
     ELSE IF id = "logistics" THEN <<" ", "\t">>
     ELSE <<" ", "1", "2", " ">>]
AnswerMaps == {NoAnswers, SomeAnswers, okAnswers}

MissingCounts == {0, 1, 5}
MustPcts == {60, 80, 100}

WinArgs == [missingCount : MissingCounts, answers : AnswerMaps, mustPct : MustPcts]

(* SpecWin: the win probability recomputed whenever an argument changes *)

WinInit ==
  /\ winTender \in Tenders
  /\ winArgs \in WinArgs
  /\ winProb = computeWinProbability(IF winTender = Null THEN Null ELSE winTender.fields,
                                     winArgs.missingCount, winArgs.answers,
                                     winArgs.mustPct)
  /\ winPrev = Pending
  /\ OutsideWinIdle

CallComputeWinProbability ==
  \E args \in WinArgs \ {winArgs} :
    /\ winArgs' = args
    /\ winProb' = computeWinProbability(IF winTender = Null THEN Null ELSE winTender.fields,
                                        args.missingCount, args.answers, args.mustPct)
    /\ winPrev' = Returned([args |-> winArgs, prob |-> winProb])
    /\ UNCHANGED <<winTender, outsideWin>>

WinNext == CallComputeWinProbability

SpecWin == WinInit /\ [][WinNext]_vars

\* The latest two calls were made with 0 and with 5 missing documents, the
\* same answers and mustPct 80.
FiveAfterNoneMissing ==
  /\ winPrev # Pending
  /\ winPrev.val.args.missingCount = 0 /\ winArgs.missingCount = 5
  /\ winPrev.val.args.answers = winArgs.answers
  /\ winPrev.val.args.mustPct = 80 /\ winArgs.mustPct = 80

\* C10 as stated: for every non-null tender and every fixed answers map,
\* computeWinProbability with 5 missing documents is strictly smaller than
\* with 0 missing documents (mustPct 80 in both calls).
C10_AsStated ==
  (winTender # Null /\ FiveAfterNoneMissing) => winProb < winPrev.val.prob

\* C10, amended: with 5 missing documents the result is never greater than
\* with none, and it is strictly smaller whenever the tender's score exceeds
\* three times the number of unanswered required questions.
C10_MissingDocsLower ==
  (winTender # Null /\ FiveAfterNoneMissing) =>
    /\ winProb <= winPrev.val.prob
    /\ winTender.fields.score - 3 * QMissing(winArgs.answers) >= 1
         => winProb < winPrev.val.prob

\* The tender of the built-in self-test (score 80, every question answered):
\* 91 without missing documents, 73 with five.
C10_Witness ==
  /\ winTender = Obj([score |-> 80])
  /\ FiveAfterNoneMissing
  /\ winArgs.answers = okAnswers
  /\ winPrev.val.prob = 91 /\ winProb = 73

\* C11: for a fixed non-null tender, a call with at least as many missing
\* documents, at least as many unanswered required questions and at most the
\* mustPct of the call before it returns at most what that call returned.
C11_Monotonic ==
  (winTender # Null /\ winPrev # Pending) =>
    LET before == winPrev.val.args
    IN (/\ before.missingCount <= winArgs.missingCount
        /\ QMissing(before.answers) <= QMissing(winArgs.answers)
        /\ before.mustPct >= winArgs.mustPct)
       => winProb <= winPrev.val.prob

\* The tender of the built-in self-test after mustPct 100 and then 60, with
\* nothing missing: 95, then 88; and a blank answer counted as unanswered.
C11_Witness ==
  /\ winTender = Obj([score |-> 80])
  /\ winPrev # Pending
  /\ winPrev.val.args = [missingCount |-> 0, answers |-> okAnswers, mustPct |-> 100]
  /\ winArgs = [missingCount |-> 0, answers |-> SomeAnswers, mustPct |-> 60]
  /\ QMissing(SomeAnswers) = 6
  /\ winPrev.val.prob = 95 /\ winProb = 72

\* n is x rounded to the nearest integer, halves up, for x = num / den.
IsRounded(n, num, den) == 2 * den * n - den <= 2 * num /\ 2 * num < 2 * den * n + den

\* C12: the result is 0 exactly for the null tender; for any other tender it
\* is an integer in 1..99, namely clamp(round((base + mustBoost) * 0.9 + 5), 1, 99)
\* with base = max(0, score - 4 * missing - 3 * unanswered) and
\* mustBoost = round(mustPct * 0.2).
C12_Formula ==
  /\ winProb = 0 <=> winTender = Null
  /\ winTender # Null =>
       /\ winProb \in 1..99
       /\ \E mustBoost \in 0..winArgs.mustPct :
            /\ IsRounded(mustBoost, winArgs.mustPct * 2, 10)
            /\ LET penalised == winTender.fields.score - 4 * winArgs.missingCount
                                 - 3 * Cardinality({i \in 1..Len(REQUIRED_Q) :
                                       \/ REQUIRED_Q[i] \notin DOMAIN winArgs.answers
                                       \/ \A j \in 1..Len(winArgs.answers[REQUIRED_Q[i]]) :
                                            winArgs.answers[REQUIRED_Q[i]][j] \in Whitespace})
                    base == IF penalised < 0 THEN 0 ELSE penalised
               IN \E raw \in 0..(base + mustBoost + 5) :
                    /\ IsRounded(raw, (base + mustBoost) * 9 + 50, 10)
                    /\ winProb = IF raw < 1 THEN 1 ELSE IF raw > 99 THEN 99 ELSE raw

\* A tender whose penalties exceed its score: base 0, result 16.
C12_Witness ==
  /\ winTender = Obj([score |-> 10])
  /\ winArgs = [missingCount |-> 5, answers |-> NoAnswers, mustPct |-> 60]
  /\ winProb = 16
  /\ winPrev # Pending

----------------------------------------------------------------------------
(* Claims about mapSummaryToTender *)

\* The texts of the SourceInfo records of a TenderView, as values.
SourceInfoTexts(tender) ==
  {Str(tender.legalRisksWithSource[i].text) :
     i \in 1..Len(tender.legalRisksWithSource)}
  \cup {Str(tender.submissionWithSource[i].text) :
     i \in 1..Len(tender.submissionWithSource)}
  \cup {Str(tender.evaluationCriteriaWithSource[i].text) :
     i \in 1..Len(tender.evaluationCriteriaWithSource)}
  \cup {Str(tender.missingEvidenceWithSource[i].text) :
     i \in 1..Len(tender.missingEvidenceWithSource)}
  \cup {tender.scopeOfWorkSource.text}

\* C1: no SourceInfo record of the TenderView returned by mapSummaryToTender
\* (the entries of legalRisksWithSource, submissionWithSource,
\* evaluationCriteriaWithSource, missingEvidenceWithSource, and
\* scopeOfWorkSource) has a text for which isPlaceholder is true.
C1_AsStated ==
  mapOut.state = "returned" =>
    \A text \in SourceInfoTexts(mapOut.val) :
      text.type = "string" /\ ~isPlaceholder(text)

\* C2: pickTopRisks, pickTopRequirements, pickTopCriteria, pickTopStrings,
\* buildTimelineSteps and mapSummaryToTender, which calls the five others,
\* return a value and never throw, whatever each field of each record is:
\* absent, null, a string, a number or a nested object.
C2_AsStated == mapOut.state # "thrown"

\* C16: a bundle in which every section, or every field of every section and
\* record, is "unbekannt" is mapped without an exception to a TenderView
\* whose lists of risks, requirements, criteria, missing evidence and
\* timeline steps are empty, whose title is "Missing Title", whose buyer is
\* "Missing Organization" and whose scope of work is the empty string.
C16_AsStated ==
  (/\ mapPayload \in {Payload(Bundle(AllSectionsUnbekannt)),
                      Payload(Bundle(AllFieldsUnbekannt))}
   /\ mapOut # Pending)
  => /\ mapOut.state = "returned"
     /\ mapOut.val.legalRisksWithSource = <<>>
     /\ mapOut.val.submissionWithSource = <<>>
     /\ mapOut.val.evaluationCriteriaWithSource = <<>>
     /\ mapOut.val.missingEvidenceWithSource = <<>>
     /\ mapOut.val.processSteps = <<>>
     /\ mapOut.val.title = Str(MissingTitle)
     /\ mapOut.val.buyer = Str(MissingOrganization)
     /\ mapOut.val.scopeOfWork = Str(<<>>)

\* C17: in a TenderView returned by mapSummaryToTender the lists
\* legalRisksWithSource, submissionWithSource, evaluationCriteriaWithSource
\* and missingEvidenceWithSource have at most 5 entries each and processSteps
\* has at most 6.
C17_AsStated ==
  mapOut.state = "returned" =>
    /\ Len(mapOut.val.legalRisksWithSource) <= 5
    /\ Len(mapOut.val.submissionWithSource) <= 5
    /\ Len(mapOut.val.evaluationCriteriaWithSource) <= 5
    /\ Len(mapOut.val.missingEvidenceWithSource) <= 5
    /\ Len(mapOut.val.processSteps) <= 6

----------------------------------------------------------------------------
(* The ReikanTenderAI component: tender list, selection and detail fetches *)

\* The batch_id the backend gives to the n-th uploaded file.
BatchIds  == <<"batch-1", "batch-2">>
NoRunId   == ""
NoError   == ""

\* setLatestBatch(summary): the summary of a batch.
Summary(batch) == [type |-> "summary", batch |-> batch]

\* An entry of the tender list, the tender fetchTenderDetails returns for a
\* run, and the tender handleTenderCreated builds for an uploaded batch.
ListEntry(id)  == [id |-> id, runId |-> NoRunId, kind |-> "list"]
Details(runId) == [id |-> runId, runId |-> runId, kind |-> "details"]
Created(batch) == [id |-> BatchIds[batch], runId |-> BatchIds[batch],
                   kind |-> "upload"]

\* t.runId || t.id
RunIdOf(t) == IF t.runId # NoRunId THEN t.runId ELSE t.id

\* The lists the backend answers GET /api/tenders with.
TenderLists ==
  { <<>>, <<ListEntry("A"), ListEntry("B")>> }

\* Bounds of the exploration: the steps of the stepper that are visited, and
\* the list and detail requests issued in one run.
MaxStep          == 2
MaxListFetches   == 2
MaxDetailFetches == 2

\* What a request remembers of the moment it was started.
Snapshot(res, sel) == [results |-> res, selected |-> sel]

\* The FileUploadZone is rendered by StepScan in upload mode only.
ZoneMounted(s, m) == s = 1 /\ m = "upload"

\* setStep(s) followed by the effect on [step]: on entering step 2 with a
\* selected tender, its details are fetched again. `fetches` is the set of
\* detail requests left in flight by the calling handler, sel and res the
\* values it leaves in selected and results.
EnterStep(s, sel, res, fetches) ==
  /\ step' = s
  /\ torn' = (torn \/ (ZoneMounted(step, mode) /\ s # 1 /\ up.pc # "idle"))
  /\ IF s # step /\ s = 2 /\ sel # Null
     THEN /\ started.detail < limits.details
          /\ detailFetches' = fetches \cup
               {[n |-> started.detail + 1, runId |-> RunIdOf(sel),
                 origin |-> "refetch", entry |-> Null,
                 before |-> Snapshot(res, sel)]}
          /\ started' = [started EXCEPT !.detail = @ + 1]
          /\ loadingTenderDetails' = TRUE
     ELSE /\ detailFetches' = fetches
          /\ UNCHANGED <<started, loadingTenderDetails>>

CompInit ==
  /\ step = 1 /\ mode = "search" /\ sortKey = "deadline"
  /\ results = <<>> /\ selected = Null
  /\ isProcessing = FALSE /\ latestBatch = Null
  /\ tendersError = NoError
  /\ loadingTenders = TRUE /\ loadingTenderDetails = FALSE
  /\ listFetches = {[n |-> 1, before |-> Snapshot(<<>>, Null)]}
  /\ detailFetches = {}
  /\ started = [list |-> 1, detail |-> 0, click |-> NoRunId]

\* The sort buttons: the effect on [sortKey] fetches the list again.
ChangeSortKey(key) ==
  /\ step = 1 /\ mode = "search" /\ key # sortKey
  /\ started.list < limits.lists
  /\ sortKey' = key
  /\ loadingTenders' = TRUE
  /\ tendersError' = NoError
  /\ listFetches' = listFetches \cup
       {[n |-> started.list + 1, before |-> Snapshot(results, selected)]}
  /\ started' = [started EXCEPT !.list = @ + 1]
  /\ UNCHANGED <<step, mode, results, selected, isProcessing, latestBatch,
                 loadingTenderDetails, detailFetches,
                 zoneVars, outsideApp>>

\* fetchTenders, try branch: a list arrives.
FetchTendersSucceeds(f, payloadList) ==
  /\ f \in listFetches
  /\ listFetches' = listFetches \ {f}
  /\ IF Len(payloadList) > 0
     THEN /\ results' = payloadList
          /\ selected' = IF selected # Null THEN selected ELSE payloadList[1]
     ELSE /\ results' = <<>>
          /\ selected' = Null
  /\ loadingTenders' = FALSE
  /\ UNCHANGED <<step, mode, sortKey, isProcessing, latestBatch, tendersError,
                 loadingTenderDetails, detailFetches, started,
                 zoneVars, outsideApp>>

\* A catch branch that shows the empty state of the else branch.
FetchTendersFailsClears(f) ==
  /\ f \in listFetches
  /\ listFetches' = listFetches \ {f}
  /\ tendersError' = "Failed to fetch tenders"
  /\ loadingTenders' = FALSE
  /\ results' = <<>>
  /\ selected' = Null
  /\ UNCHANGED <<step, mode, sortKey, isProcessing,
                 latestBatch, loadingTenderDetails, detailFetches, started,
                 zoneVars, outsideApp>>

\* fetchTenders, catch branch: the request failed.
FetchTendersFails(f) ==
  /\ f \in listFetches
  /\ listFetches' = listFetches \ {f}
  /\ tendersError' = "Failed to fetch tenders"
  /\ loadingTenders' = FALSE
  /\ UNCHANGED <<step, mode, sortKey, results, selected, isProcessing,
                 latestBatch, loadingTenderDetails, detailFetches, started,
                 zoneVars, outsideApp>>

\* A click on the card of tender t starts fetchTenderDetails. started.click
\* keeps the run of the latest click.
ClickCard(i) ==
  /\ step = 1 /\ mode = "search"
  /\ i \in 1..Len(results)
  /\ started.detail < limits.details
  /\ detailFetches' = detailFetches \cup
       {[n |-> started.detail + 1, runId |-> RunIdOf(results[i]),
         origin |-> "click", entry |-> results[i],
         before |-> Snapshot(results, selected)]}
  /\ started' = [started EXCEPT !.detail = @ + 1,
                                !.click = RunIdOf(results[i])]
  /\ UNCHANGED <<step, mode, sortKey, results, selected, isProcessing,
                 latestBatch, tendersError, loadingTenders, loadingTenderDetails,
                 listFetches,
                 zoneVars, outsideApp>>

\* A click handler that ignores the response of a superseded click.
CardDetailsArriveLatestOnly(f) ==
  /\ f \in detailFetches /\ f.origin = "click"
  /\ IF \E g \in detailFetches : g.origin = "click" /\ g.n > f.n
     THEN /\ detailFetches' = detailFetches \ {f}
          /\ UNCHANGED <<selected, step, torn, started, loadingTenderDetails>>
     ELSE /\ selected' = Details(f.runId)
          /\ EnterStep(2, Details(f.runId), results, detailFetches \ {f})
  /\ UNCHANGED <<mode, sortKey, results, isProcessing, latestBatch,
                 tendersError, loadingTenders, listFetches,
                 up, zone, batches, calls, late, outsideApp>>

\* The click handler after the details arrived: setSelected(details); onNext().
CardDetailsArrive(f) ==
  /\ f \in detailFetches /\ f.origin = "click"
  /\ selected' = Details(f.runId)
  /\ EnterStep(2, Details(f.runId), results, detailFetches \ {f})
  /\ UNCHANGED <<mode, sortKey, results, isProcessing, latestBatch,
                 tendersError, loadingTenders, listFetches,
                 up, zone, batches, calls, late, outsideApp>>

\* The click handler's catch: setSelected(t); onNext().
CardDetailsFail(f) ==
  /\ f \in detailFetches /\ f.origin = "click"
  /\ selected' = f.entry
  /\ EnterStep(2, f.entry, results, detailFetches \ {f})
  /\ UNCHANGED <<mode, sortKey, results, isProcessing, latestBatch,
                 tendersError, loadingTenders, listFetches,
                 up, zone, batches, calls, late, outsideApp>>

\* refetchTenderDetails: setSelected(freshDetails)
RefetchArrives(f) ==
  /\ f \in detailFetches /\ f.origin = "refetch"
  /\ detailFetches' = detailFetches \ {f}
  /\ selected' = Details(f.runId)
  /\ loadingTenderDetails' = FALSE
  /\ UNCHANGED <<step, mode, sortKey, results, isProcessing, latestBatch,
                 tendersError, loadingTenders, listFetches, started,
                 zoneVars, outsideApp>>

\* refetchTenderDetails, catch branch: the existing data is kept.
RefetchFails(f) ==
  /\ f \in detailFetches /\ f.origin = "refetch"
  /\ detailFetches' = detailFetches \ {f}
  /\ loadingTenderDetails' = FALSE
  /\ UNCHANGED <<step, mode, sortKey, results, selected, isProcessing,
                 latestBatch, tendersError, loadingTenders, listFetches, started,
                 zoneVars, outsideApp>>

----------------------------------------------------------------------------
(* The FileUploadZone component: uploadFiles and the status polling *)

\* Bounds: the .zip files of one selection, the poll callbacks one timer starts.
MaxFiles == 1
MaxPolls == 1

\* waitForSummary gives up after this many failed requests.
MaxAttempts == 5

Terminal == {"completed", "completed_with_errors", "failed"}

\* onProcessingChange(v) is setIsProcessing(v); the effect on [isProcessing]
\* clears the selected tender and the latest batch when it becomes true.
OnProcessingChange(v) ==
  /\ isProcessing' = v
  /\ IF v /\ ~isProcessing
     THEN selected' = Null /\ latestBatch' = Null
     ELSE UNCHANGED <<selected, latestBatch>>

ZoneInit ==
  /\ up = [pc |-> "idle", files |-> 0, index |-> 0, processingStarted |-> FALSE,
           before |-> Snapshot(<<>>, Null)]
  /\ zone = [isUploading |-> FALSE, error |-> NoError, fileStatus |-> <<>>]
  /\ batches = <<>>
  /\ calls = {}
  /\ torn = FALSE
  /\ late = [poll |-> FALSE, callback |-> FALSE]

\* "Ausschreibung hochladen": StepScan renders the FileUploadZone.
OpenUpload ==
  /\ step = 1 /\ mode = "search"
  /\ mode' = "upload"
  /\ UNCHANGED <<step, sortKey, results, selected, isProcessing, latestBatch,
                 tendersError, loadingTenders, loadingTenderDetails,
                 listFetches, detailFetches, started, zoneVars,
                 outsideApp>>

\* "Zurueck zur Suche": the FileUploadZone is unmounted.
BackToSearch ==
  /\ step = 1 /\ mode = "upload"
  /\ mode' = "search"
  /\ torn' = (torn \/ up.pc # "idle")
  /\ UNCHANGED <<step, sortKey, results, selected, isProcessing, latestBatch,
                 tendersError, loadingTenders, loadingTenderDetails,
                 listFetches, detailFetches, started, up, zone, batches, calls,
                 late,
                 outsideApp>>

\* A stepper button: setStep(s). Leaving step 1 unmounts StepScan.
GoToStep(s) ==
  /\ s \in 1..limits.steps /\ s # step
  /\ EnterStep(s, selected, results, detailFetches)
  /\ UNCHANGED <<mode, sortKey, results, selected, isProcessing, latestBatch,
                 tendersError, loadingTenders, listFetches, up, zone, batches,
                 calls, late,
                 outsideApp>>

\* handleFileSelect without a .zip file among the files.
SelectNoZip ==
  /\ ZoneMounted(step, mode) /\ up.pc = "idle"
  /\ zone' = [zone EXCEPT !.error = "Only .zip files are supported."]
  /\ UNCHANGED <<compVars, up, batches, calls, torn, late,
                 outsideApp>>

\* handleFileSelect with n .zip files: uploadFiles up to its first await.
\* One selection is explored in a run (up.pc = "idle").
SelectFiles(n) ==
  /\ ZoneMounted(step, mode) /\ up.pc = "idle"
  /\ n \in 1..limits.files
  /\ zone' = [isUploading |-> TRUE, error |-> NoError,
              fileStatus |-> [i \in 1..n |-> "uploading"]]
  /\ OnProcessingChange(TRUE)
  /\ up' = [pc |-> "upload", files |-> n, index |-> 1,
            processingStarted |-> FALSE, before |-> Snapshot(results, selected)]
  /\ batches' = [i \in 1..n |-> [server |-> "none", timer |-> FALSE, polls |-> 0,
                                 seen |-> FALSE, created |-> 0]]
  /\ UNCHANGED <<step, mode, sortKey, results, tendersError, loadingTenders,
                 loadingTenderDetails, listFetches, detailFetches, started,
                 calls, torn, late,
                 outsideApp>>

\* The end of an iteration without the final onProcessingChange(false).
NextFileKeepsFlag(status, processingStarted) ==
  LET fileStatus == [zone.fileStatus EXCEPT ![up.index] = status]
  IN IF up.index < up.files
     THEN /\ up' = [up EXCEPT !.pc = "upload", !.index = @ + 1,
                              !.processingStarted = processingStarted]
          /\ zone' = [zone EXCEPT !.fileStatus = fileStatus]
          /\ UNCHANGED <<isProcessing, selected, latestBatch>>
     ELSE /\ up' = [up EXCEPT !.pc = "done", !.processingStarted = processingStarted]
          /\ zone' = [zone EXCEPT !.fileStatus = fileStatus, !.isUploading = FALSE]
          /\ UNCHANGED <<isProcessing, selected, latestBatch>>

\* The end of one iteration of the for loop, file status and
\* processingStarted given: the next file's upload request, or the end of
\* uploadFiles.
NextFile(status, processingStarted) ==
  LET fileStatus == [zone.fileStatus EXCEPT ![up.index] = status]
  IN IF up.index < up.files
     THEN /\ up' = [up EXCEPT !.pc = "upload", !.index = @ + 1,
                              !.processingStarted = processingStarted]
          /\ zone' = [zone EXCEPT !.fileStatus = fileStatus]
          /\ UNCHANGED <<isProcessing, selected, latestBatch>>
     ELSE /\ up' = [up EXCEPT !.pc = "done", !.processingStarted = processingStarted]
          /\ zone' = [zone EXCEPT !.fileStatus = fileStatus, !.isUploading = FALSE]
          /\ IF ~processingStarted
             THEN OnProcessingChange(FALSE)
             ELSE UNCHANGED <<isProcessing, selected, latestBatch>>

\* POST /upload-tender is rejected, or its response has no batch_id.
UploadFails ==
  /\ up.pc = "upload"
  /\ NextFile("error", up.processingStarted)
  /\ UNCHANGED <<step, mode, sortKey, results, tendersError, loadingTenders,
                 loadingTenderDetails, listFetches, detailFetches, started,
                 batches, calls, torn, late,
                 outsideApp>>

\* The upload succeeded: triggerProcessing(batchId) is awaited.
UploadSucceeds ==
  /\ up.pc = "upload"
  /\ up' = [up EXCEPT !.pc = "trigger"]
  /\ batches' = [batches EXCEPT ![up.index].server = "uploaded"]
  /\ UNCHANGED <<compVars, zone, calls, torn, late,
                 outsideApp>>

\* triggerProcessing throws 'Failed to start processing'.
TriggerFails ==
  /\ up.pc = "trigger"
  /\ NextFile("error", up.processingStarted)
  /\ UNCHANGED <<step, mode, sortKey, results, tendersError, loadingTenders,
                 loadingTenderDetails, listFetches, detailFetches, started,
                 batches, calls, torn, late,
                 outsideApp>>

\* Processing started: setInterval(..., 3000) for the batch.
TriggerSucceeds ==
  /\ up.pc = "trigger"
  /\ NextFile("completed", TRUE)
  /\ batches' = [batches EXCEPT ![up.index].server = "processing",
                                ![up.index].timer = TRUE]
  /\ UNCHANGED <<step, mode, sortKey, results, tendersError, loadingTenders,
                 loadingTenderDetails, listFetches, detailFetches, started,
                 calls, torn, late,
                 outsideApp>>

\* The backend finishes a batch.
ServerFinishes(b, status) ==
  /\ b \in DOMAIN batches /\ batches[b].server = "processing"
  /\ status \in Terminal
  /\ batches' = [batches EXCEPT ![b].server = status]
  /\ UNCHANGED <<compVars, up, zone, calls, torn, late,
                 outsideApp>>

\* The interval timer of batch b fires: the callback requests the status.
Tick(b) ==
  /\ b \in DOMAIN batches /\ batches[b].timer
  /\ batches[b].polls < limits.polls
  /\ calls' = calls \cup {[batch |-> b, n |-> batches[b].polls + 1,
                           phase |-> "status", attempts |-> 0,
                           before |-> Snapshot(results, selected)]}
  /\ batches' = [batches EXCEPT ![b].polls = @ + 1]
  /\ late' = [late EXCEPT !.poll = @ \/ torn \/ batches[b].seen]
  /\ UNCHANGED <<compVars, up, zone, torn,
                 outsideApp>>

\* The catch of the poll callback: clearInterval, setError,
\* onProcessingChange(false).
PollCatch(c) ==
  /\ calls' = calls \ {c}
  /\ batches' = [batches EXCEPT ![c.batch].timer = FALSE]
  /\ zone' = [zone EXCEPT !.error = "Failed to track processing status."]
  /\ OnProcessingChange(FALSE)
  /\ late' = [late EXCEPT !.callback = @ \/ torn]

\* fetchBatchStatus answers with the batch status.
StatusArrives(c) ==
  /\ c \in calls /\ c.phase = "status"
  /\ LET status == batches[c.batch].server
     IN IF status \in Terminal
        THEN /\ batches' = [batches EXCEPT ![c.batch].timer = FALSE,
                                           ![c.batch].seen = TRUE]
             /\ OnProcessingChange(FALSE)
             /\ late' = [late EXCEPT !.callback = @ \/ torn]
             /\ calls' = IF status = "failed" THEN calls \ {c}
                         ELSE (calls \ {c}) \cup {[c EXCEPT !.phase = "summary"]}
        ELSE /\ calls' = calls \ {c}
             /\ UNCHANGED <<batches, isProcessing, selected, latestBatch, late>>
  /\ UNCHANGED <<step, mode, sortKey, results, tendersError, loadingTenders,
                 loadingTenderDetails, listFetches, detailFetches, started,
                 up, zone, torn,
                 outsideApp>>

\* fetchBatchStatus throws 'Failed to fetch batch status'.
StatusFails(c) ==
  /\ c \in calls /\ c.phase = "status"
  /\ PollCatch(c)
  /\ UNCHANGED <<step, mode, sortKey, results, tendersError, loadingTenders,
                 loadingTenderDetails, listFetches, detailFetches, started,
                 up, torn,
                 outsideApp>>

\* waitForSummary: fetchBatchSummary returns; fetchBatchFiles is awaited.
SummaryArrives(c) ==
  /\ c \in calls /\ c.phase = "summary"
  /\ calls' = (calls \ {c}) \cup {[c EXCEPT !.phase = "files"]}
  /\ UNCHANGED <<compVars, up, zone, batches, torn, late,
                 outsideApp>>

\* waitForSummary: fetchBatchSummary throws; attempts += 1 and a 1500 ms
\* timeout is awaited.
SummaryFails(c) ==
  /\ c \in calls /\ c.phase = "summary"
  /\ calls' = (calls \ {c}) \cup
       {[c EXCEPT !.phase = "sleep", !.attempts = @ + 1]}
  /\ UNCHANGED <<compVars, up, zone, batches, torn, late,
                 outsideApp>>

\* waitForSummary with while (attempts <= 5): one request more.
SummaryTimeoutOneMore(c) ==
  /\ c \in calls /\ c.phase = "sleep"
  /\ IF c.attempts <= MaxAttempts
     THEN /\ calls' = (calls \ {c}) \cup {[c EXCEPT !.phase = "summary"]}
          /\ UNCHANGED <<batches, zone, isProcessing, selected, latestBatch, late>>
     ELSE PollCatch(c)
  /\ UNCHANGED <<step, mode, sortKey, results, tendersError, loadingTenders,
                 loadingTenderDetails, listFetches, detailFetches, started,
                 up, torn,
                 outsideApp>>

\* waitForSummary: the timeout elapsed; the loop asks again or, after
\* MaxAttempts failures, throws 'Summary not ready' into the callback's catch.
SummaryTimeout(c) ==
  /\ c \in calls /\ c.phase = "sleep"
  /\ IF c.attempts < MaxAttempts
     THEN /\ calls' = (calls \ {c}) \cup {[c EXCEPT !.phase = "summary"]}
          /\ UNCHANGED <<batches, zone, isProcessing, selected, latestBatch, late>>
     ELSE PollCatch(c)
  /\ UNCHANGED <<step, mode, sortKey, results, tendersError, loadingTenders,
                 loadingTenderDetails, listFetches, detailFetches, started,
                 up, torn,
                 outsideApp>>

\* fetchBatchFiles settled (its failure is only logged): onTenderCreated,
\* that is handleTenderCreated, which maps the summary, selects the tender and
\* shows step 2.
FilesSettle(c) ==
  /\ c \in calls /\ c.phase = "files"
  /\ calls' = calls \ {c}
  /\ latestBatch' = Summary(c.batch)
  /\ selected' = Created(c.batch)
  /\ mode' = "search"
  /\ EnterStep(2, Created(c.batch), results, detailFetches)
  /\ batches' = [batches EXCEPT ![c.batch].created = @ + 1]
  /\ late' = [late EXCEPT !.callback = @ \/ torn]
  /\ UNCHANGED <<sortKey, results, isProcessing, tendersError, loadingTenders,
                 listFetches, up, zone,
                 outsideApp>>

\* handleTenderCreated when mapSummaryToTender throws on the summary: the
\* latest batch is set, and the exception ends in the callback's catch.
FilesSettleMapThrows(c) ==
  /\ c \in calls /\ c.phase = "files"
  /\ latestBatch' = Summary(c.batch)
  /\ calls' = calls \ {c}
  /\ batches' = [batches EXCEPT ![c.batch].timer = FALSE]
  /\ zone' = [zone EXCEPT !.error = "Failed to track processing status."]
  /\ isProcessing' = FALSE
  /\ late' = [late EXCEPT !.callback = @ \/ torn]
  /\ UNCHANGED <<selected, step, mode, sortKey, results, tendersError, loadingTenders,
                 loadingTenderDetails, listFetches, detailFetches, started,
                 up, torn,
                 outsideApp>>

(* Spec: the application *)

Init ==
  /\ CompInit /\ ZoneInit /\ OutsideAppIdle
  /\ limits = [steps |-> MaxStep, lists |-> MaxListFetches,
               details |-> MaxDetailFetches, files |-> MaxFiles, polls |-> MaxPolls]

Next ==
  \/ \E key \in {"deadline", "score"} : ChangeSortKey(key)
  \/ \E f \in listFetches : \E payloadList \in TenderLists :
       FetchTendersSucceeds(f, payloadList)
  \/ \E f \in listFetches : FetchTendersFails(f)
  \/ \E i \in 1..Len(results) : ClickCard(i)
  \/ \E f \in detailFetches : CardDetailsArrive(f)
  \/ \E f \in detailFetches : CardDetailsFail(f)
  \/ \E f \in detailFetches : RefetchArrives(f)
  \/ \E f \in detailFetches : RefetchFails(f)
  \/ OpenUpload
  \/ BackToSearch
  \/ \E s \in 1..limits.steps : GoToStep(s)
  \/ SelectNoZip
  \/ \E n \in 1..limits.files : SelectFiles(n)
  \/ UploadFails
  \/ UploadSucceeds
  \/ TriggerFails
  \/ TriggerSucceeds
  \/ \E b \in DOMAIN batches : \E status \in Terminal : ServerFinishes(b, status)
  \/ \E b \in DOMAIN batches : Tick(b)
  \/ \E c \in calls : StatusArrives(c)
  \/ \E c \in calls : StatusFails(c)
  \/ \E c \in calls : SummaryArrives(c)
  \/ \E c \in calls : SummaryFails(c)
  \/ \E c \in calls : SummaryTimeout(c)
  \/ \E c \in calls : FilesSettle(c)
  \/ \E c \in calls : FilesSettleMapThrows(c)

Spec == Init /\ [][Next]_vars

----------------------------------------------------------------------------
(* SpecZone: one selection of files in the FileUploadZone, after the tender   *)
(* list arrived empty and "Ausschreibung hochladen" was pressed; one file     *)
(* whose timer fires twice, or two files whose timers fire once               *)

MaxZoneFiles == 2
MaxZonePolls == 2

ZoneLimits ==
  { [steps |-> 1, lists |-> 1, details |-> 1, files |-> 1, polls |-> MaxZonePolls],
    [steps |-> 1, lists |-> 1, details |-> 1, files |-> MaxZoneFiles, polls |-> 1] }

UploadInit ==
  /\ step = 1 /\ mode = "upload" /\ sortKey = "deadline"
  /\ results = <<>> /\ selected = Null
  /\ isProcessing = FALSE /\ latestBatch = Null
  /\ tendersError = NoError
  /\ loadingTenders = FALSE /\ loadingTenderDetails = FALSE
  /\ listFetches = {} /\ detailFetches = {}
  /\ started = [list |-> 1, detail |-> 0, click |-> NoRunId]
  /\ ZoneInit
  /\ limits \in ZoneLimits
  /\ OutsideAppIdle

ZoneNext ==
  \/ SelectNoZip
  \/ \E n \in 1..limits.files : SelectFiles(n)
  \/ UploadFails
  \/ UploadSucceeds
  \/ TriggerFails
  \/ TriggerSucceeds
  \/ \E b \in DOMAIN batches : \E status \in Terminal : ServerFinishes(b, status)
  \/ \E b \in DOMAIN batches : Tick(b)
  \/ \E c \in calls : StatusArrives(c)
  \/ \E c \in calls : StatusFails(c)
  \/ \E c \in calls : SummaryArrives(c)
  \/ \E c \in calls : SummaryFails(c)
  \/ \E c \in calls : SummaryTimeout(c)
  \/ \E c \in calls : FilesSettle(c)
  \/ \E c \in calls : FilesSettleMapThrows(c)
  \/ \E f \in detailFetches : RefetchArrives(f)
  \/ \E f \in detailFetches : RefetchFails(f)

SpecZone == UploadInit /\ [][ZoneNext]_vars

\* The tender list alone: clicks on cards and the detail requests they start.
MaxClickFetches == 4

DetailsInit ==
  /\ CompInit /\ ZoneInit /\ OutsideAppIdle
  /\ limits = [steps |-> 1, lists |-> 1, details |-> MaxClickFetches,
               files |-> 1, polls |-> 1]

DetailsNext ==
  \/ \E f \in listFetches : \E l \in TenderLists : FetchTendersSucceeds(f, l)
  \/ \E f \in listFetches : FetchTendersFails(f)
  \/ \E i \in 1..Len(results) : ClickCard(i)
  \/ \E f \in detailFetches : CardDetailsArrive(f)
  \/ \E f \in detailFetches : CardDetailsFail(f)
  \/ \E f \in detailFetches : RefetchArrives(f)
  \/ \E f \in detailFetches : RefetchFails(f)

SpecDetails == DetailsInit /\ [][DetailsNext]_vars

----------------------------------------------------------------------------
(* Claims about the polling timer and about failed requests *)

TimerActive == \E b \in DOMAIN batches : batches[b].timer

\* C3: the polling timer of a batch is cancelled once a terminal status has
\* been observed and when the FileUploadZone is torn down; after the teardown
\* no status poll is issued and no callback fires.
C3_AsStated ==
  /\ \A b \in DOMAIN batches : batches[b].seen => ~batches[b].timer
  /\ torn => ~TimerActive
  /\ ~late.poll
  /\ ~late.callback

\* A request failed in this step, and the tender list and the selected tender
\* it leaves are those of the snapshot.
FailsWith(failed, before) ==
  failed => results' = before.results /\ selected' = before.selected

PollFails(c) ==
  \/ StatusFails(c)
  \/ SummaryTimeout(c) /\ c.attempts >= MaxAttempts

\* C4 (as stated): after a failed network call the tender list and the
\* selected tender have the values they had when the operation was started.
C4_AsStated ==
  [][ /\ \A f \in listFetches : FailsWith(FetchTendersFails(f), f.before)
      /\ \A f \in detailFetches :
           FailsWith(CardDetailsFail(f) \/ RefetchFails(f), f.before)
      /\ FailsWith(UploadFails \/ TriggerFails, up.before)
      /\ \A c \in calls : FailsWith(PollFails(c), c.before) ]_vars

\* C4 (amended): the handler of a failed network call leaves the tender list
\* as it finds it, and the selected tender too, except that a failed detail
\* fetch of a card click selects the clicked list entry.
C4_FailuresKeepList ==
  [][ /\ \A f \in listFetches :
           FetchTendersFails(f) => UNCHANGED <<results, selected>>
      /\ \A f \in detailFetches :
           /\ RefetchFails(f) => UNCHANGED <<results, selected>>
           /\ CardDetailsFail(f) => results' = results /\ selected' = f.entry
      /\ (UploadFails \/ TriggerFails) => UNCHANGED <<results, selected>>
      /\ \A c \in calls : PollFails(c) => UNCHANGED <<results, selected>> ]_vars

\* The list fetch of a changed sort key failed: the error is shown, and the
\* list and the selection of the earlier fetch are still there.
C4_Witness ==
  /\ tendersError # NoError
  /\ sortKey = "score"
  /\ Len(results) = 2
  /\ selected = ListEntry("A")

----------------------------------------------------------------------------
(* Claims about the upload zone *)

\* C21: waitForSummary makes at most 5 summary requests: a request is in
\* flight only after fewer than 5 failures, a successful response ends the
\* loop, a failure is followed by the 1500 ms wait, and the wait after the
\* 5th failure ends the callback with an error shown and without
\* onTenderCreated.
C21_WaitForSummaryBounded ==
  [][ /\ \A c \in calls' :
           /\ c.attempts <= 5
           /\ c.phase \in {"summary", "files"} => c.attempts < 5
      /\ \A c \in calls :
           /\ SummaryArrives(c) =>
                /\ [c EXCEPT !.phase = "files"] \in calls'
                /\ \A d \in calls' : d.phase = "summary" => d \in calls
           /\ SummaryFails(c) =>
                [c EXCEPT !.phase = "sleep", !.attempts = c.attempts + 1] \in calls'
           /\ (SummaryTimeout(c) /\ c.attempts = 5) =>
                /\ \A d \in calls' : d \in calls /\ d # c
                /\ zone'.error = "Failed to track processing status."
                /\ batches'[c.batch].created = batches[c.batch].created
                /\ selected' = selected
                /\ ~isProcessing' ]_vars

\* The 5th summary request of a callback failed and its wait is running.
C21_Witness ==
  \E c \in calls :
    /\ c.phase = "sleep" /\ c.attempts = 5
    /\ batches[c.batch].server \in {"completed", "completed_with_errors"}
    /\ batches[c.batch].created = 0

----------------------------------------------------------------------------
(* Claims about overlapping detail requests *)

\* C22: no click response is dropped as stale: whenever a detail request
\* started by a click leaves flight, the selected tender becomes its result
\* (the details, or the list entry when the request failed) and the stepper
\* is at step 2, whatever was clicked after it.
C22_EveryResponseOverwrites ==
  [][ \A f \in detailFetches :
        (f.origin = "click" /\ f \notin detailFetches') =>
          /\ selected' \in {Details(f.runId), f.entry}
          /\ step' = 2 ]_vars

\* B was clicked last, both click requests have finished, B's first (its
\* refetch of step 2 is still in flight), and the selected tender is A.
C22_Witness ==
  /\ started.click = "B"
  /\ selected = Details("A")
  /\ step = 2
  /\ \A f \in detailFetches : f.origin = "refetch" /\ f.runId = "B"
  /\ \E f \in detailFetches : f.before.selected = Details("B")

\* C28 as stated: onTenderCreated is invoked at most once for each uploaded
\* batch, however the poll callbacks of the batch interleave.
C28_AsStated ==
  \A b \in DOMAIN batches : batches[b].created <= 1

\* C29 as stated: the processing flag is true as long as a file of the
\* selection is still being uploaded or its batch is still being polled.
C29_AsStated ==
  ( \/ up.pc \in {"upload", "trigger"}
    \/ \E b \in DOMAIN batches : batches[b].timer )
  => isProcessing

\* uploadFiles has returned and no file of the selection got as far as
\* processing: each upload was rejected, or start-processing failed.
AllFilesFailedEarly ==
  /\ up.pc = "done"
  /\ \A b \in DOMAIN batches : batches[b].server \in {"none", "uploaded"}

\* C30: a file that fails ends its iteration of the loop (the next file is
\* uploaded, or uploadFiles returns after the last one), and once
\* uploadFiles has returned with every file failed before processing, each
\* file is marked as error, no polling timer or poll callback exists, and
\* the processing flag and isUploading are false.
C30_AllFilesFail ==
  [][ /\ ( /\ up.pc \in {"upload", "trigger"}
           /\ zone'.fileStatus[up.index] = "error" )
         => \/ up.index < up.files /\ up'.pc = "upload" /\ up'.index = up.index + 1
            \/ up.index = up.files /\ up'.pc = "done"
      /\ AllFilesFailedEarly' =>
           /\ \A i \in 1..up'.files : zone'.fileStatus[i] = "error"
           /\ \A b \in DOMAIN batches' :
                ~batches'[b].timer /\ batches'[b].polls = 0
           /\ calls' = {}
           /\ ~isProcessing'
           /\ ~zone'.isUploading ]_vars

\* Two files were selected: start-processing failed for the first, the
\* upload of the second was rejected, and uploadFiles has returned.
C30_Witness ==
  /\ AllFilesFailedEarly
  /\ up.files = 2
  /\ batches[1].server = "uploaded" /\ batches[2].server = "none"
  /\ zone.fileStatus = <<"error", "error">>
  /\ ~isProcessing /\ ~zone.isUploading

============================================================================
